---- MODULE Spec2Model ----
(***************************************************************************)
(* CloudFlux: the chunked upload engine.                                   *)
(*                                                                         *)
(*   server  pages/api/upload-chunk.js   (src/unnamed/part_002)            *)
(*   client  contexts/UploaderContext.js (src/unnamed/part_000)            *)
(*                                                                         *)
(* The server handler is an async function: it runs atomically between its *)
(* awaits, so every await of a provider call is a suspension point at      *)
(* which other handlers interleave.  A provider call may succeed or fail.  *)
(* The deployment is the default one, cloudProvider = "aws".               *)
(***************************************************************************)
EXTENDS Integers, Sequences, FiniteSets, TLC

\* ------------------------------------------------------------------ bounds
MaxKeys ==
  2
MaxEnvRequests ==
  4
MaxEnvChunk ==
  1
EnvHandlers ==
  2
MaxRuns ==
  2
MaxChunkIndex ==
  2
MaxLost ==
  1

FileIds ==
  {"f1", "f2"}

\* ------------------------------------------------------------- statuses
HTTP_OK ==
  200
HTTP_BAD_REQUEST ==
  400
HTTP_CONFLICT ==
  409
HTTP_ERROR ==
  500

VARIABLES
  multipartUploads,   \* fileId -> [uploadId, parts, fileKey]   (part_002:55)
  cancelledUploads,   \* set of fileId                          (part_002:59)
  fileKeyMap,         \* fileId -> fileKey                      (part_002:60)
  generatedKeys,      \* k-th generated key was made for generatedKeys[k]
  s3Open,             \* provider: upload ids of open multipart uploads
  s3Objects,          \* provider: key -> Parts list the object was built from
  net,                \* slot -> request / handler activation / response
  envSent,            \* requests issued by the free client of SpecServer
  abortsDone,         \* fileId -> aborts answered in succession, no other action of
                      \* the id in between or under way (history)
  selectedFiles,      \* array of file records                  (part_000:35)
  isUploading,        \*                                        (part_000:45)
  stats,              \* successCount, failedCount              (part_000:38)
  settings,           \* chunkSize, maxParallelChunks, uploadConcurrency (part_000:49)
  network,            \* networkPreset, the last probe's result, the probes under way
                      \*                                        (part_000:53)
  run,                \* startUpload invocations and what their closures hold
  task,               \* <<run, fileId>> -> the per-file async callback
  chunk,              \* <<run, fileId, chunkIndex>> -> the uploadChunk call
  lost,               \* fetches that have been lost so far
  clicks,             \* cancel and retry operations the user has made, when counted
  prepare,            \* prepareFiles: the array a folder read holds, the last call
  cancelledMid,       \* fileId -> cancelled while uploading, before the final window (history)
  scenario            \* what the environment does: provider faults, how many fetches are
                      \* lost, how often the user starts an upload, cancels or retries

vars ==
  <<multipartUploads, cancelledUploads, fileKeyMap, generatedKeys,
    s3Open, s3Objects, net, envSent, abortsDone,
    selectedFiles, isUploading, stats, settings, network, run, task, chunk, lost,
    clicks, prepare, cancelledMid, scenario>>

clientVars ==
  <<selectedFiles, isUploading, stats, settings, network, run, task, chunk, lost,
    clicks, prepare, cancelledMid, scenario>>

serverVars ==
  <<multipartUploads, cancelledUploads, fileKeyMap, generatedKeys,
    s3Open, s3Objects>>

\* ---------------------------------------------------------- finite maps
EmptyMap ==
  [x \in {} |-> 0]

MapSet(m, k, v) ==
  [x \in DOMAIN m \cup {k} |-> IF x = k THEN v ELSE m[x]]

\* a variant that deletes nothing
MapDeleteNothing(m, k) ==
  m

MapDelete(m, k) ==
  [x \in DOMAIN m \ {k} |-> m[x]]

\* ------------------------------------------------------------- messages
NoResp ==
  [status |-> 0, success |-> FALSE, cancelled |-> FALSE,
   uploadId |-> 0, fileKey |-> 0, partNumber |-> 0, partsReceived |-> 0]

Response(status, success, cancelled) ==
  [NoResp EXCEPT !.status = status, !.success = success, !.cancelled = cancelled]

Idle ==
  [pc |-> "idle", action |-> "", fileId |-> "", currentChunk |-> 0,
   uploadId |-> 0, fileKey |-> 0,
   chunkData |-> <<>>,
   actualUploadId |-> 0, actualFileKey |-> 0, parts |-> <<>>,
   quiet |-> FALSE, resp |-> NoResp]

\* req.body of a POST to /api/upload-chunk; 0 stands for an absent field
Request(action, fileId, currentChunk, uploadId, fileKey) ==
  [Idle EXCEPT !.pc = "sent", !.action = action, !.fileId = fileId,
               !.currentChunk = currentChunk, !.uploadId = uploadId,
               !.fileKey = fileKey]

Respond(h, r) ==
  [h EXCEPT !.pc = "done", !.resp = r]

EnvSlots ==
  {<<"env", n, "", 0>> : n \in 1..EnvHandlers}

Runs ==
  1..MaxRuns

ChunkIdx ==
  0..MaxChunkIndex

TaskSlot(r, f) ==
  <<"task", r, f, 0>>

ChunkSlot(r, f, i) ==
  <<"chunk", r, f, i>>

CancelSlot(f) ==
  <<"cancel", 0, f, 0>>

ClientSlots ==
  {TaskSlot(r, f) : r \in Runs, f \in FileIds}
    \cup {ChunkSlot(r, f, i) : r \in Runs, f \in FileIds, i \in ChunkIdx}
    \cup {CancelSlot(f) : f \in FileIds}

Slots ==
  EnvSlots \cup ClientSlots

\* =================================================================
\*                      SERVER  (src/unnamed/part_002)
\* =================================================================

\* parts.sort((a, b) => a.PartNumber - b.PartNumber): a stable sort
RECURSIVE InsertPart(_, _)
InsertPart(sorted, p) ==
  IF sorted = <<>> THEN <<p>>
  ELSE IF Head(sorted).PartNumber <= p.PartNumber
       THEN <<Head(sorted)>> \o InsertPart(Tail(sorted), p)
       ELSE <<p>> \o sorted

RECURSIVE SortParts(_)
SortParts(parts) ==
  IF parts = <<>> THEN <<>>
  ELSE InsertPart(SortParts(SubSeq(parts, 1, Len(parts) - 1)), parts[Len(parts)])

\* the outcomes of a provider call: it fails when the provider must refuse
\* it, and it may fail when the environment has provider faults
ProviderOutcomes(acceptable) ==
  IF ~acceptable THEN {FALSE}
  ELSE IF scenario.provider THEN {TRUE, FALSE} ELSE {TRUE}

\* a variant of the check that lets upload through
RejectsCancelledButUpload(action, fileId) ==
  action \notin {"abort", "upload"} /\ fileId \in cancelledUploads

\* the check in front of every action but abort
RejectsCancelled(action, fileId) ==
  action # "abort" /\ fileId \in cancelledUploads

CancelledPayload ==
  Response(HTTP_CONFLICT, FALSE, TRUE)

\* a variant in which the missing session is thrown to the catch of the handler
SessionNotFoundAsServerError ==
  Response(HTTP_ERROR, FALSE, FALSE)

SessionNotFound ==
  Response(HTTP_BAD_REQUEST, FALSE, FALSE)

\* a variant of the catch that answers with a success
InternalErrorAsSuccess ==
  Response(HTTP_OK, TRUE, FALSE)

\* the catch around the whole handler
InternalError ==
  Response(HTTP_ERROR, FALSE, FALSE)

\* a variant of the push that replaces a record with the same part number
PushPartReplacing(parts, rec) ==
  IF \E i \in DOMAIN parts : parts[i].PartNumber = rec.PartNumber
  THEN [i \in DOMAIN parts |->
          IF parts[i].PartNumber = rec.PartNumber THEN rec ELSE parts[i]]
  ELSE Append(parts, rec)

\* multipartUploads[fileId].parts.push({PartNumber, ETag})
PushPart(parts, rec) ==
  Append(parts, rec)

\* history of the abort calls answered in succession for a file id
OtherCall(fileId) ==
  abortsDone' = [abortsDone EXCEPT ![fileId] = 0]

\* no other action of the file id is between two awaits (history: an abort
\* that began so is one of a succession of aborts)
Quiet(s, fileId) ==
  \A t \in Slots \ {s} :
    net[t].fileId = fileId => net[t].pc \notin {"create", "uploadPart", "completeMpu"}

AbortAnswered(fileId, quiet) ==
  abortsDone' = [abortsDone EXCEPT ![fileId] =
                   IF ~quiet THEN 0 ELSE IF @ < 2 THEN @ + 1 ELSE 2]

Rejected(s) ==
  /\ net[s].pc = "sent"
  /\ RejectsCancelled(net[s].action, net[s].fileId)
  /\ net' = [net EXCEPT ![s] = Respond(@, CancelledPayload)]
  /\ OtherCall(net[s].fileId)
  /\ UNCHANGED <<serverVars, envSent, clientVars>>

InitializeBegin(s) ==
  LET h == net[s]
      generatedFileKey == Len(generatedKeys) + 1
  IN  /\ h.pc = "sent"
      /\ h.action = "initialize"
      /\ ~RejectsCancelled(h.action, h.fileId)
      /\ generatedFileKey <= MaxKeys
      /\ cancelledUploads' = cancelledUploads \ {h.fileId}
      /\ generatedKeys' = Append(generatedKeys, h.fileId)
      /\ fileKeyMap' = MapSet(fileKeyMap, h.fileId, generatedFileKey)
      /\ net' = [net EXCEPT ![s] = [h EXCEPT !.pc = "create",
                                            !.actualFileKey = generatedFileKey]]
      /\ OtherCall(h.fileId)
      /\ UNCHANGED <<multipartUploads, s3Open, s3Objects, envSent, clientVars>>

\* CreateMultipartUpload returns; the upload id of the k-th key is k
InitializeEnd(s) ==
  LET h == net[s]
      key == h.actualFileKey
  IN  /\ h.pc = "create"
      /\ \E ok \in ProviderOutcomes(TRUE) :
           IF ok
           THEN /\ s3Open' = s3Open \cup {key}
                /\ multipartUploads' =
                     MapSet(multipartUploads, h.fileId,
                            [uploadId |-> key, parts |-> <<>>, fileKey |-> key])
                /\ net' = [net EXCEPT ![s] =
                     Respond(h, [Response(HTTP_OK, TRUE, FALSE)
                                   EXCEPT !.uploadId = key, !.fileKey = key])]
           ELSE /\ net' = [net EXCEPT ![s] = Respond(h, InternalError)]
                /\ UNCHANGED <<s3Open, multipartUploads>>
      /\ OtherCall(h.fileId)
      /\ UNCHANGED <<cancelledUploads, fileKeyMap, generatedKeys, s3Objects, envSent, clientVars>>

\* a variant of the status answer that does not read the set
StatusAnswerStale(fileId) ==
  Response(HTTP_OK, TRUE, TRUE)

StatusAnswer(fileId) ==
  Response(HTTP_OK, TRUE, fileId \in cancelledUploads)

Status(s) ==
  LET h == net[s]
  IN  /\ h.pc = "sent"
      /\ h.action = "status"
      /\ ~RejectsCancelled(h.action, h.fileId)
      /\ net' = [net EXCEPT ![s] = Respond(h, StatusAnswer(h.fileId))]
      /\ OtherCall(h.fileId)
      /\ UNCHANGED <<serverVars, envSent, clientVars>>

UploadBegin(s) ==
  LET h == net[s]
  IN  /\ h.pc = "sent"
      /\ h.action = "upload"
      /\ ~RejectsCancelled(h.action, h.fileId)
      /\ net' = [net EXCEPT ![s] =
           IF h.fileId \notin DOMAIN multipartUploads
           THEN Respond(h, SessionNotFound)
           ELSE [h EXCEPT !.pc = "uploadPart"]]
      /\ OtherCall(h.fileId)
      /\ UNCHANGED <<serverVars, envSent, clientVars>>

\* UploadPartCommand returns: the provider accepts a part only for an open
\* multipart upload; the ETag stands for the bytes of the chunk
UploadEnd(s) ==
  LET h == net[s]
      partNumber == h.currentChunk + 1
  IN  /\ h.pc = "uploadPart"
      /\ \E ok \in ProviderOutcomes(h.uploadId \in s3Open) :
           IF ok /\ h.fileId \in DOMAIN multipartUploads
           THEN /\ multipartUploads' =
                     [multipartUploads EXCEPT ![h.fileId].parts =
                        PushPart(@, [PartNumber |-> partNumber, ETag |-> h.currentChunk])]
                /\ net' = [net EXCEPT ![s] =
                     Respond(h, [Response(HTTP_OK, TRUE, FALSE)
                        EXCEPT !.partNumber = partNumber,
                               !.partsReceived = Len(multipartUploads'[h.fileId].parts)])]
           ELSE \* the provider call fails, or the session was deleted while
                \* waiting and the push throws
                /\ net' = [net EXCEPT ![s] = Respond(h, InternalError)]
                /\ UNCHANGED multipartUploads
      /\ OtherCall(h.fileId)
      /\ UNCHANGED <<cancelledUploads, fileKeyMap, generatedKeys, s3Open, s3Objects, envSent, clientVars>>

\* the parts array is sorted in place and handed to the provider
CompleteBegin(s) ==
  LET h == net[s]
  IN  /\ h.pc = "sent"
      /\ h.action = "complete"
      /\ ~RejectsCancelled(h.action, h.fileId)
      /\ IF h.fileId \notin DOMAIN multipartUploads
         THEN /\ net' = [net EXCEPT ![s] = Respond(h, SessionNotFound)]
              /\ UNCHANGED multipartUploads
         ELSE LET d == multipartUploads[h.fileId]
                  sorted == SortParts(d.parts)
              IN  /\ multipartUploads' =
                       [multipartUploads EXCEPT ![h.fileId].parts = sorted]
                  /\ net' = [net EXCEPT ![s] =
                       [h EXCEPT !.pc = "completeMpu", !.parts = sorted,
                                 !.actualFileKey = d.fileKey,
                                 !.actualUploadId = d.uploadId]]
      /\ OtherCall(h.fileId)
      /\ UNCHANGED <<cancelledUploads, fileKeyMap, generatedKeys, s3Open, s3Objects, envSent, clientVars>>

CompleteEnd(s) ==
  LET h == net[s]
  IN  /\ h.pc = "completeMpu"
      /\ \E ok \in ProviderOutcomes(h.actualUploadId \in s3Open) :
           IF ok
           THEN /\ s3Open' = s3Open \ {h.actualUploadId}
                /\ s3Objects' = MapSet(s3Objects, h.actualFileKey, h.parts)
                /\ multipartUploads' = MapDelete(multipartUploads, h.fileId)
                /\ fileKeyMap' = MapDelete(fileKeyMap, h.fileId)
                /\ net' = [net EXCEPT ![s] =
                     Respond(h, [Response(HTTP_OK, TRUE, FALSE)
                                   EXCEPT !.fileKey = h.actualFileKey])]
           ELSE /\ net' = [net EXCEPT ![s] = Respond(h, InternalError)]
                /\ UNCHANGED <<s3Open, s3Objects, multipartUploads, fileKeyMap>>
      /\ OtherCall(h.fileId)
      /\ UNCHANGED <<cancelledUploads, generatedKeys, envSent, clientVars>>

\* const targetFileKey = fileKey || fileKeyMap.get(fileId)
TargetFileKey(h) ==
  IF h.fileKey # 0 THEN h.fileKey
  ELSE IF h.fileId \in DOMAIN fileKeyMap THEN fileKeyMap[h.fileId] ELSE 0

AbortSuccess ==
  Response(HTTP_OK, TRUE, FALSE)

\* the handler of abort up to its first await; when nothing is known about
\* the id it is only marked
AbortBegin(s) ==
  LET h == net[s]
      known == h.fileId \in DOMAIN multipartUploads
      actualFileKey == IF known THEN multipartUploads[h.fileId].fileKey
                       ELSE TargetFileKey(h)
      actualUploadId == IF known THEN multipartUploads[h.fileId].uploadId
                        ELSE h.uploadId
  IN  /\ h.pc = "sent"
      /\ h.action = "abort"
      /\ cancelledUploads' = cancelledUploads \cup {h.fileId}
      /\ IF ~known /\ TargetFileKey(h) = 0
         THEN /\ net' = [net EXCEPT ![s] = Respond(h, AbortSuccess)]
              /\ AbortAnswered(h.fileId, Quiet(s, h.fileId))
         ELSE /\ net' = [net EXCEPT ![s] =
                   [h EXCEPT !.pc = IF actualUploadId # 0 THEN "abortMpu"
                                    ELSE "deleteObj",
                             !.quiet = Quiet(s, h.fileId),
                             !.actualFileKey = actualFileKey,
                             !.actualUploadId = actualUploadId]]
              /\ UNCHANGED abortsDone
      /\ UNCHANGED <<multipartUploads, fileKeyMap, generatedKeys, s3Open, s3Objects,
                     envSent, clientVars>>

\* a variant in which the failure of the provider is not caught
AbortMpuThrows(h) ==
  Respond(h, InternalError)

\* catch (abortError): logged, the handler goes on
AbortMpuFailed(h) ==
  [h EXCEPT !.pc = "deleteObj"]

\* AbortMultipartUploadCommand returns
AbortMpuEnd(s) ==
  LET h == net[s]
  IN  /\ h.pc = "abortMpu"
      /\ \E ok \in ProviderOutcomes(h.actualUploadId \in s3Open) :
           IF ok
           THEN /\ s3Open' = s3Open \ {h.actualUploadId}
                /\ net' = [net EXCEPT ![s] = [h EXCEPT !.pc = "deleteObj"]]
           ELSE /\ net' = [net EXCEPT ![s] = AbortMpuFailed(h)]
                /\ UNCHANGED s3Open
      /\ UNCHANGED <<multipartUploads, cancelledUploads, fileKeyMap, generatedKeys,
                     s3Objects, envSent, abortsDone, clientVars>>

\* a variant of the clean up that keeps the session
ForgetSessionKept(sessions, fileId) ==
  sessions

\* delete multipartUploads[fileId]
ForgetSession(sessions, fileId) ==
  MapDelete(sessions, fileId)

\* deleteFileFromCloud returns (true or false), then the clean up
AbortEnd(s) ==
  LET h == net[s]
  IN  /\ h.pc = "deleteObj"
      /\ \E ok \in ProviderOutcomes(TRUE) :
           s3Objects' = IF ok THEN MapDelete(s3Objects, h.actualFileKey) ELSE s3Objects
      /\ multipartUploads' = ForgetSession(multipartUploads, h.fileId)
      /\ fileKeyMap' = MapDelete(fileKeyMap, h.fileId)
      /\ net' = [net EXCEPT ![s] = Respond(h, AbortSuccess)]
      /\ AbortAnswered(h.fileId, h.quiet)
      /\ UNCHANGED <<cancelledUploads, generatedKeys, s3Open, envSent, clientVars>>

ServerInit ==
  /\ multipartUploads = EmptyMap
  /\ cancelledUploads = {}
  /\ fileKeyMap = EmptyMap
  /\ generatedKeys = <<>>
  /\ s3Open = {}
  /\ s3Objects = EmptyMap
  /\ abortsDone = [f \in FileIds |-> 0]

Server ==
  \E s \in Slots :
    \/ Rejected(s)
    \/ InitializeBegin(s)
    \/ InitializeEnd(s)
    \/ Status(s)
    \/ UploadBegin(s)
    \/ UploadEnd(s)
    \/ CompleteBegin(s)
    \/ CompleteEnd(s)
    \/ AbortBegin(s)
    \/ AbortMpuEnd(s)
    \/ AbortEnd(s)

\* =================================================================
\*                      CLIENT  (src/unnamed/part_000)
\* =================================================================
\* An async function runs atomically up to its next await on a timer,
\* a database call or a fetch; promise continuations run before any
\* other event.  selectedFiles inside startUpload, parallelChunkUpload
\* and uploadChunk is the array of the render that created the callback:
\* the closure of a run keeps the array as it was when startUpload was
\* called.

MAX_RETRIES ==
  3

\* sizes are in MiB
MiB ==
  1

\* progress = null
NoProgress ==
  -1

\* error = null
NoError ==
  <<>>

UploadCancelled ==
  <<"UPLOAD_CANCELLED">>

FetchFailed ==
  <<"Failed to fetch">>

FileRecord(id, name, size, lastModified) ==
  [id |-> id, name |-> name, size |-> size, lastModified |-> lastModified,
   status |-> "pending", progress |-> 0, error |-> NoError, retryCount |-> 0]

HasFile(files, fileId) ==
  \E i \in DOMAIN files : files[i].id = fileId

\* selectedFiles.find((f) => f.id === fileId)
FindFile(files, fileId) ==
  files[CHOOSE i \in DOMAIN files : files[i].id = fileId]

\* currentFile?.status
StatusOf(files, fileId) ==
  IF HasFile(files, fileId) THEN FindFile(files, fileId).status ELSE "undefined"

\* a variant that counts a cancellation as a retry as well
UpdateFileStatusCountingCancelled(files, fileId, status, progress, error) ==
  [i \in DOMAIN files |->
     IF files[i].id = fileId
     THEN [files[i] EXCEPT
             !.status = status,
             !.progress = IF progress # NoProgress THEN progress ELSE @,
             !.error = IF error # NoError THEN error ELSE @,
             !.retryCount = IF status \in {"failed", "cancelled"} THEN @ + 1 ELSE @]
     ELSE files[i]]

\* a variant that adds a record when no record has the id
UpdateFileStatusOrAdd(files, fileId, status, progress, error) ==
  IF \E i \in DOMAIN files : files[i].id = fileId
  THEN [i \in DOMAIN files |->
          IF files[i].id = fileId
          THEN [files[i] EXCEPT
                  !.status = status,
                  !.progress = IF progress # NoProgress THEN progress ELSE @,
                  !.error = IF error # NoError THEN error ELSE @,
                  !.retryCount = IF status = "failed" THEN @ + 1 ELSE @]
          ELSE files[i]]
  ELSE Append(files, [FileRecord(fileId, "", 0, 0) EXCEPT !.status = status])

UpdateFileStatus(files, fileId, status, progress, error) ==
  [i \in DOMAIN files |->
     IF files[i].id = fileId
     THEN [files[i] EXCEPT
             !.status = status,
             !.progress = IF progress # NoProgress THEN progress ELSE @,
             !.error = IF error # NoError THEN error ELSE @,
             !.retryCount = IF status = "failed" THEN @ + 1 ELSE @]
     ELSE files[i]]

\* Math.ceil(a / b)
CeilDiv(a, b) ==
  (a + b - 1) \div b

Min(a, b) ==
  IF a < b THEN a ELSE b

\* no folder is being read and prepareFiles has not been called
NoPrepare ==
  [reading |-> FALSE, closure |-> <<>>, uuids |-> 0, files |-> <<>>, newFiles |-> <<>>]

IdleRun ==
  [pc |-> "idle", snapshot |-> <<>>, filesToUpload |-> <<>>, currentBatch |-> 0,
   chunkSize |-> 0, maxParallelChunks |-> 0, uploadConcurrency |-> 0]

IdleTask ==
  [pc |-> "idle", uploadId |-> 0, fileKey |-> 0, batchStart |-> 0,
   completedChunks |-> 0]

\* sends: the upload requests the call has sent (history); cancelledBefore:
\* the server had the file id in cancelledUploads when the call polled the
\* status (history)
IdleChunk ==
  [pc |-> "idle", attempts |-> 0, sends |-> 0, cancelledBefore |-> FALSE]

\* the client state a step reads and writes, as one value
Client ==
  [files |-> selectedFiles, isUploading |-> isUploading, stats |-> stats,
   run |-> run, task |-> task, chunk |-> chunk, net |-> net]

Commit(c) ==
  /\ selectedFiles' = c.files
  /\ isUploading' = c.isUploading
  /\ stats' = c.stats
  /\ run' = c.run
  /\ task' = c.task
  /\ chunk' = c.chunk
  /\ net' = c.net

SetStatus(c, fileId, status, progress, error) ==
  [c EXCEPT !.files = UpdateFileStatus(@, fileId, status, progress, error)]

\* a variant that cuts every file into at least one chunk
TotalChunksAtLeastOne(c, r, f) ==
  LET n == CeilDiv(FindFile(c.run[r].snapshot, f).size, c.run[r].chunkSize)
  IN  IF n = 0 THEN 1 ELSE n

\* const totalChunks = Math.ceil(fileToUpload.size / CHUNK_SIZE)
TotalChunks(c, r, f) ==
  CeilDiv(FindFile(c.run[r].snapshot, f).size, c.run[r].chunkSize)

\* filesToUpload.slice(startIdx, endIdx)
CurrentFiles(rn) ==
  LET startIdx == rn.currentBatch * rn.uploadConcurrency
      endIdx == Min(startIdx + rn.uploadConcurrency, Len(rn.filesToUpload))
  IN  SubSeq(rn.filesToUpload, startIdx + 1, endIdx)

\* the head of the per-file callback: status uploading, then initialize
StartTask(c, r, f) ==
  LET c1 == SetStatus(c, f, "uploading", 0, NoError)
  IN  [c1 EXCEPT !.task[<<r, f>>] = [IdleTask EXCEPT !.pc = "init"],
                 !.net[TaskSlot(r, f)] = Request("initialize", f, 0, 0, 0)]

RECURSIVE StartTasks(_, _, _)
StartTasks(c, r, fs) ==
  IF fs = <<>> THEN c ELSE StartTasks(StartTask(c, r, Head(fs)), r, Tail(fs))

\* uploadBatch()
UploadBatch(c, r) ==
  LET currentFiles == CurrentFiles(c.run[r])
  IN  IF currentFiles = <<>>
      THEN [c EXCEPT !.isUploading = FALSE, !.run[r].pc = "done"]
      ELSE StartTasks(c, r, currentFiles)

\* a variant in which a failed file ends the run, as Promise.all would
SettleEndingOnFailure(c, r, f) ==
  LET c1 == [c EXCEPT !.task[<<r, f>>].pc = "settled"]
      currentFiles == CurrentFiles(c1.run[r])
      all == \A k \in DOMAIN currentFiles :
               c1.task[<<r, currentFiles[k]>>].pc = "settled"
  IN  IF c.task[<<r, f>>].pc = "failing"
      THEN [c1 EXCEPT !.isUploading = FALSE, !.run[r].pc = "done"]
      ELSE IF all
      THEN UploadBatch([c1 EXCEPT !.run[r].currentBatch = @ + 1], r)
      ELSE c1

\* the callback of a file returns or throws: Promise.allSettled may go on
Settle(c, r, f) ==
  LET c1 == [c EXCEPT !.task[<<r, f>>].pc = "settled"]
      currentFiles == CurrentFiles(c1.run[r])
      all == \A k \in DOMAIN currentFiles :
               c1.task[<<r, currentFiles[k]>>].pc = "settled"
  IN  IF all
      THEN UploadBatch([c1 EXCEPT !.run[r].currentBatch = @ + 1], r)
      ELSE c1

\* catch (error) of the per-file callback, up to its await
CatchFileError(c, r, f, error) ==
  IF error = UploadCancelled
  THEN [SetStatus(c, f, "cancelled", NoProgress, NoError)
          EXCEPT !.task[<<r, f>>].pc = "cancelling"]
  ELSE [SetStatus(c, f, "failed", 0, error)
          EXCEPT !.task[<<r, f>>].pc = "failing"]

\* catch (error) of parallelChunkUpload and what startUpload does with it
DispatchThrows(c, r, f, error) ==
  IF error = UploadCancelled
  THEN Settle(c, r, f)
  ELSE CatchFileError(c, r, f, error)

\* the promise of a chunk rejects; Promise.all rejects with the first one
RejectChunk(c, r, f, i, error) ==
  LET c1 == [c EXCEPT !.chunk[<<r, f, i>>].pc = "rejected",
                      !.net[ChunkSlot(r, f, i)] = Idle]
  IN  IF c.task[<<r, f>>].pc = "window"
      THEN DispatchThrows(c1, r, f, error)
      ELSE c1

\* const start = chunkIndex * CHUNK_SIZE
ChunkStart(i, chunkSize) ==
  i * chunkSize

\* a variant that does not stop the last chunk at the end of the file
ChunkEndPastTheFile(i, chunkSize, size) ==
  ChunkStart(i, chunkSize) + chunkSize

\* const end = Math.min(start + CHUNK_SIZE, fileToUpload.size)
ChunkEnd(i, chunkSize, size) ==
  Min(ChunkStart(i, chunkSize) + chunkSize, size)

\* chunkData stands for file.slice(start, end), the bytes from start up to
\* end, end not included
UploadRequest(c, r, f, i) ==
  LET size == FindFile(c.run[r].snapshot, f).size
      chunkSize == c.run[r].chunkSize
  IN  [Request("upload", f, i, c.task[<<r, f>>].uploadId, c.task[<<r, f>>].fileKey)
         EXCEPT !.chunkData = <<ChunkStart(i, chunkSize), ChunkEnd(i, chunkSize, size)>>]

\* one turn of the while loop of uploadChunk, up to its first fetch
BeginAttempt(c, r, f, i) ==
  LET attempts == c.chunk[<<r, f, i>>].attempts
      checks == attempts = 0 \/ attempts % 2 = 0
  IN  IF checks /\ StatusOf(c.run[r].snapshot, f) = "cancelled"
      THEN RejectChunk([c EXCEPT !.chunk[<<r, f, i>>].attempts = @ + 1],
                       r, f, i, UploadCancelled)
      ELSE IF checks /\ i % 5 = 0
      THEN [c EXCEPT !.chunk[<<r, f, i>>].pc = "status",
                     !.chunk[<<r, f, i>>].cancelledBefore = f \in cancelledUploads,
                     !.net[ChunkSlot(r, f, i)] = Request("status", f, 0, 0, 0)]
      ELSE [c EXCEPT !.chunk[<<r, f, i>>].pc = "upload",
                     !.chunk[<<r, f, i>>].sends = @ + 1,
                     !.net[ChunkSlot(r, f, i)] = UploadRequest(c, r, f, i)]

\* the status poll is over and the chunk is sent
SendChunk(c, r, f, i) ==
  [c EXCEPT !.chunk[<<r, f, i>>].pc = "upload",
            !.chunk[<<r, f, i>>].sends = @ + 1,
            !.net[ChunkSlot(r, f, i)] = UploadRequest(c, r, f, i)]

\* a variant of the catch that gives up one attempt later
CatchChunkErrorLate(c, r, f, i, error) ==
  LET attempts == c.chunk[<<r, f, i>>].attempts + 1
      c1 == [c EXCEPT !.chunk[<<r, f, i>>].attempts = attempts]
  IN  IF error = UploadCancelled \/ attempts > MAX_RETRIES
      THEN RejectChunk(c1, r, f, i, error)
      ELSE BeginAttempt(c1, r, f, i)

\* catch (error) of uploadChunk; the backoff timer ends in the next turn
CatchChunkError(c, r, f, i, error) ==
  LET attempts == c.chunk[<<r, f, i>>].attempts + 1
      c1 == [c EXCEPT !.chunk[<<r, f, i>>].attempts = attempts]
  IN  IF error = UploadCancelled \/ attempts >= MAX_RETRIES
      THEN RejectChunk(c1, r, f, i, error)
      ELSE BeginAttempt(c1, r, f, i)

RECURSIVE IssueChunks(_, _, _, _, _)
IssueChunks(c, r, f, i, batchEnd) ==
  IF i >= batchEnd THEN c
  ELSE IssueChunks(BeginAttempt([c EXCEPT !.chunk[<<r, f, i>>] = IdleChunk], r, f, i),
                   r, f, i + 1, batchEnd)

\* the for loop of parallelChunkUpload at batchStart, then the rest of the
\* callback of the file up to the complete request
DispatchLoop(c, r, f) ==
  LET t == c.task[<<r, f>>]
      totalChunks == TotalChunks(c, r, f)
      batchEnd == Min(t.batchStart + c.run[r].maxParallelChunks, totalChunks)
      cancelled == StatusOf(c.run[r].snapshot, f) = "cancelled"
  IN  IF t.batchStart < totalChunks
      THEN IF cancelled
           THEN DispatchThrows(c, r, f, UploadCancelled)
           ELSE IssueChunks([c EXCEPT !.task[<<r, f>>].pc = "window"],
                            r, f, t.batchStart, batchEnd)
      ELSE IF cancelled
           THEN Settle(c, r, f)
           ELSE [c EXCEPT !.task[<<r, f>>].pc = "complete",
                          !.net[TaskSlot(r, f)] =
                             Request("complete", f, 0, t.uploadId, t.fileKey)]

\* Math.floor((completedChunks / totalChunks) * 100)
Progress(completedChunks, totalChunks) ==
  (completedChunks * 100) \div totalChunks

\* .then((result) => ...) of a chunk, and Promise.all when it was the last
ChunkResolved(c, r, f, i) ==
  LET t == c.task[<<r, f>>]
      completedChunks == t.completedChunks + 1
      c1 == [SetStatus(c, f, "uploading",
                       Progress(completedChunks, TotalChunks(c, r, f)), NoError)
               EXCEPT !.task[<<r, f>>].completedChunks = completedChunks,
                      !.chunk[<<r, f, i>>].pc = "ok",
                      !.net[ChunkSlot(r, f, i)] = Idle]
      batchEnd == Min(t.batchStart + c.run[r].maxParallelChunks, TotalChunks(c, r, f))
      windowDone == \A j \in t.batchStart..(batchEnd - 1) : c1.chunk[<<r, f, j>>].pc = "ok"
  IN  IF t.pc = "window" /\ windowDone
      THEN DispatchLoop([c1 EXCEPT !.task[<<r, f>>].batchStart =
                                      @ + c.run[r].maxParallelChunks], r, f)
      ELSE c1

\* ---------------------------------------------------------- operations

\* a variant of the filter that leaves failed files out
RECURSIVE EligibleButFailed(_)
EligibleButFailed(files) ==
  IF files = <<>> THEN <<>>
  ELSE (IF Head(files).status \notin {"completed", "uploading", "failed"}
        THEN <<Head(files).id>> ELSE <<>>) \o EligibleButFailed(Tail(files))

\* selectedFiles.filter(not completed, not uploading), as ids
RECURSIVE Eligible(_)
Eligible(files) ==
  IF files = <<>> THEN <<>>
  ELSE (IF Head(files).status \notin {"completed", "uploading"}
        THEN <<Head(files).id>> ELSE <<>>) \o Eligible(Tail(files))

RunAvailable ==
  \E r \in Runs : r <= scenario.runs /\ run[r].pc = "idle"

FreeRun ==
  CHOOSE r \in Runs : run[r].pc = "idle" /\ \A q \in Runs : q < r => run[q].pc # "idle"

\* startUpload() as the button of the current render calls it
BeginRun(c, files) ==
  [c EXCEPT !.isUploading = TRUE,
            !.run[FreeRun] =
               [pc |-> "queue", snapshot |-> files,
                filesToUpload |-> Eligible(files), currentBatch |-> 0,
                chunkSize |-> settings.chunkSize,
                maxParallelChunks |-> settings.maxParallelChunks,
                uploadConcurrency |-> settings.uploadConcurrency]]

StartUpload ==
  /\ RunAvailable
  /\ Len(selectedFiles) # 0
  /\ ~isUploading
  /\ Eligible(selectedFiles) # <<>>
  /\ Commit(BeginRun(Client, selectedFiles))
  /\ UNCHANGED <<serverVars, envSent, abortsDone, settings, network, prepare, lost, clicks, cancelledMid, scenario>>

\* await uploadQueueService.addToQueue(...) returns: the first batch
QueueAdded(r) ==
  /\ run[r].pc = "queue"
  /\ Commit(UploadBatch([Client EXCEPT !.run[r].pc = "batch"], r))
  /\ UNCHANGED <<serverVars, envSent, abortsDone, settings, network, prepare, lost, clicks, cancelledMid, scenario>>

\* a fetch resolves with the response, or rejects (the request or the
\* response is lost)
Answered(s, delivered) ==
  IF delivered
  THEN net[s].pc = "done" /\ UNCHANGED lost
  ELSE /\ lost < scenario.transport
       /\ net[s].pc \in {"sent", "done"}
       /\ lost' = lost + 1

\* a variant that takes every answer for a success
OkWhateverTheStatus(resp) ==
  resp.status \in {HTTP_OK, HTTP_BAD_REQUEST, HTTP_CONFLICT, HTTP_ERROR}

\* response.ok
Ok(resp) ==
  resp.status = HTTP_OK

InitReturns(r, f) ==
  LET s == TaskSlot(r, f)
      resp == net[s].resp
      c == [Client EXCEPT !.net[s] = Idle]
  IN  /\ task[<<r, f>>].pc = "init"
      /\ \E delivered \in BOOLEAN :
           /\ Answered(s, delivered)
           /\ Commit(
                IF ~delivered THEN CatchFileError(c, r, f, FetchFailed)
                ELSE IF ~Ok(resp) THEN
                  CatchFileError(c, r, f,
                     <<"Failed to initialize upload: HTTP", resp.status>>)
                ELSE DispatchLoop([c EXCEPT !.task[<<r, f>>].uploadId = resp.uploadId,
                                            !.task[<<r, f>>].fileKey = resp.fileKey],
                                  r, f))
      /\ UNCHANGED <<serverVars, envSent, abortsDone, settings, network, prepare, clicks, cancelledMid, scenario>>

StatusReturns(r, f, i) ==
  LET s == ChunkSlot(r, f, i)
      resp == net[s].resp
  IN  /\ chunk[<<r, f, i>>].pc = "status"
      /\ \E delivered \in BOOLEAN :
           /\ Answered(s, delivered)
           /\ Commit(
                IF delivered /\ Ok(resp) /\ resp.cancelled
                THEN CatchChunkError(Client, r, f, i, UploadCancelled)
                ELSE SendChunk(Client, r, f, i))
      /\ UNCHANGED <<serverVars, envSent, abortsDone, settings, network, prepare, clicks, cancelledMid, scenario>>

UploadReturns(r, f, i) ==
  LET s == ChunkSlot(r, f, i)
      resp == net[s].resp
  IN  /\ chunk[<<r, f, i>>].pc = "upload"
      /\ \E delivered \in BOOLEAN :
           /\ Answered(s, delivered)
           /\ Commit(
                IF ~delivered THEN CatchChunkError(Client, r, f, i, FetchFailed)
                ELSE IF ~Ok(resp) THEN
                  CatchChunkError(Client, r, f, i, <<"HTTP error", resp.status>>)
                ELSE IF resp.cancelled THEN
                  CatchChunkError(Client, r, f, i, UploadCancelled)
                ELSE ChunkResolved(Client, r, f, i))
      /\ UNCHANGED <<serverVars, envSent, abortsDone, settings, network, prepare, clicks, cancelledMid, scenario>>

\* updateFileCompletion up to its first await
CompleteReturns(r, f) ==
  LET s == TaskSlot(r, f)
      resp == net[s].resp
      c == [Client EXCEPT !.net[s] = Idle]
  IN  /\ task[<<r, f>>].pc = "complete"
      /\ \E delivered \in BOOLEAN :
           /\ Answered(s, delivered)
           /\ Commit(
                IF ~delivered THEN CatchFileError(c, r, f, FetchFailed)
                ELSE IF ~Ok(resp) THEN
                  CatchFileError(c, r, f,
                     <<"Failed to complete upload: HTTP", resp.status>>)
                ELSE [SetStatus(c, f, "completed", 100, NoError)
                        EXCEPT !.task[<<r, f>>].pc = "completing"])
      /\ UNCHANGED <<serverVars, envSent, abortsDone, settings, network, prepare, clicks, cancelledMid, scenario>>

\* the database call after the last status update returns: the statistics,
\* and the callback of the file is over
FileSettles(r, f) ==
  LET pc == task[<<r, f>>].pc
      c == [Client EXCEPT
              !.stats.failedCount = IF pc = "failing" THEN @ + 1 ELSE @,
              !.stats.successCount = IF pc = "completing" THEN @ + 1 ELSE @]
  IN  /\ pc \in {"failing", "completing", "cancelling"}
      /\ Commit(Settle(c, r, f))
      /\ UNCHANGED <<serverVars, envSent, abortsDone, settings, network, prepare, lost, clicks, cancelledMid, scenario>>

\* is a run of fileId dispatching a window that is not its last one
BeforeFinalWindow(fileId) ==
  \E r \in Runs :
    /\ task[<<r, fileId>>].pc \in {"init", "window"}
    /\ \/ task[<<r, fileId>>].pc = "init"
       \/ task[<<r, fileId>>].batchStart + run[r].maxParallelChunks
            < TotalChunks(Client, r, fileId)

\* the user cancels, retries or changes a setting: scenario.clicks such
\* operations are made, or any number when it is 0
Click ==
  IF scenario.clicks = 0 THEN UNCHANGED clicks
  ELSE clicks < scenario.clicks /\ clicks' = clicks + 1

MarkCancelled(ids) ==
  cancelledMid' = [f \in FileIds |->
     IF f \in ids /\ StatusOf(selectedFiles, f) = "uploading" /\ BeforeFinalWindow(f)
     THEN TRUE ELSE cancelledMid[f]]

\* cancelUpload(fileId) up to its fetch
CancelUpload(fileId) ==
  /\ HasFile(selectedFiles, fileId)
  /\ net[CancelSlot(fileId)].pc = "idle"
  /\ Commit([SetStatus(Client, fileId, "cancelled", NoProgress, NoError)
               EXCEPT !.net[CancelSlot(fileId)] = Request("abort", fileId, 0, 0, 0)])
  /\ MarkCancelled({fileId})
  /\ Click
  /\ UNCHANGED <<serverVars, envSent, abortsDone, settings, network, prepare, lost, scenario>>

\* a variant that takes the files that wait for their batch as well
UploadingOrPendingIds(files) ==
  {files[i].id : i \in {j \in DOMAIN files : files[j].status \in {"uploading", "pending"}}}

\* selectedFiles.filter((file) => file.status === FILE_STATUS.UPLOADING)
UploadingIds(files) ==
  {files[i].id : i \in {j \in DOMAIN files : files[j].status = "uploading"}}

RECURSIVE CancelEach(_, _)
CancelEach(c, ids) ==
  IF ids = {} THEN c
  ELSE LET f == CHOOSE x \in ids : TRUE
       IN  CancelEach([SetStatus(c, f, "cancelled", NoProgress, NoError)
                         EXCEPT !.net[CancelSlot(f)] = Request("abort", f, 0, 0, 0)],
                      ids \ {f})

\* cancelAllUploads() up to its fetches
CancelAllUploads ==
  LET ids == UploadingIds(selectedFiles)
  IN  /\ isUploading \/ ids # {}
      /\ \A f \in ids : net[CancelSlot(f)].pc = "idle"
      /\ Commit(CancelEach([Client EXCEPT !.isUploading = FALSE], ids))
      /\ MarkCancelled(ids)
      /\ Click
      /\ UNCHANGED <<serverVars, envSent, abortsDone, settings, network, prepare, lost, scenario>>

\* the fetch of a cancellation returns or fails: both are only logged
CancelReturns(fileId) ==
  LET s == CancelSlot(fileId)
  IN  /\ \E delivered \in BOOLEAN : Answered(s, delivered)
      /\ net' = [net EXCEPT ![s] = Idle]
      /\ UNCHANGED <<serverVars, envSent, abortsDone, selectedFiles, isUploading, stats,
                     settings, network, prepare, run, task, chunk, clicks, cancelledMid, scenario>>

RECURSIVE ResetFailed(_, _)
ResetFailed(files, i) ==
  IF i > Len(files) THEN files
  ELSE ResetFailed(IF files[i].status = "failed"
                   THEN UpdateFileStatus(files, files[i].id, "pending", 0, NoError)
                   ELSE files, i + 1)

\* retryFailedUploads(): the startUpload it calls is the one of its render
RetryFailedUploads ==
  LET c == [Client EXCEPT !.files = ResetFailed(selectedFiles, 1)]
  IN  /\ \E i \in DOMAIN selectedFiles : selectedFiles[i].status = "failed"
      /\ isUploading \/ RunAvailable
      /\ Commit(IF isUploading THEN c ELSE BeginRun(c, selectedFiles))
      /\ Click
      /\ UNCHANGED <<serverVars, envSent, abortsDone, settings, network, prepare, lost, cancelledMid, scenario>>

ClientNext ==
  \/ StartUpload
  \/ \E r \in Runs : QueueAdded(r)
  \/ \E r \in Runs, f \in FileIds : InitReturns(r, f)
  \/ \E r \in Runs, f \in FileIds, i \in ChunkIdx : StatusReturns(r, f, i)
  \/ \E r \in Runs, f \in FileIds, i \in ChunkIdx : UploadReturns(r, f, i)
  \/ \E r \in Runs, f \in FileIds : CompleteReturns(r, f)
  \/ \E r \in Runs, f \in FileIds : FileSettles(r, f)
  \/ \E f \in FileIds : CancelUpload(f)
  \/ CancelAllUploads
  \/ \E f \in FileIds : CancelReturns(f)
  \/ RetryFailedUploads

\* the preset "slow": 2 MiB chunks, 2 parallel chunks, 1 file at a time
SlowSettings ==
  [chunkSize |-> 2 * MiB, maxParallelChunks |-> 2, uploadConcurrency |-> 1]

\* no probe is under way
NoProbe ==
  [pc |-> "idle", auto |-> FALSE]

\* the network state of a session: the preset shown as selected, the
\* networkStats of the context (the last measurement and its preset), the
\* detectedPreset of the settings panel's own networkStats, and the two
\* testNetworkSpeed calls with what their closure holds: is networkPreset auto
Network(networkPreset) ==
  [networkPreset |-> networkPreset, detectedPreset |-> "medium",
   uploadSpeedMbps |-> 0, rtt |-> 0, panelDetected |-> "medium",
   contextProbe |-> NoProbe, panelProbe |-> NoProbe]

\* no upload, no request and no user operation has been made
NothingUnderWay ==
  /\ isUploading = FALSE
  /\ stats = [successCount |-> 0, failedCount |-> 0]
  /\ run = [r \in Runs |-> IdleRun]
  /\ task = [k \in Runs \X FileIds |-> IdleTask]
  /\ chunk = [k \in Runs \X FileIds \X ChunkIdx |-> IdleChunk]
  /\ lost = 0
  /\ clicks = 0
  /\ cancelledMid = [f \in FileIds |-> FALSE]
  /\ net = [s \in Slots |-> Idle]
  /\ envSent = 0

ClientAtRest ==
  /\ NothingUnderWay
  /\ prepare = NoPrepare

\* the preset "slow" was chosen by hand and no probe has been made
ClientIdle ==
  /\ ClientAtRest
  /\ network = Network("slow")


Scenario(provider, transport, runs) ==
  [provider |-> provider, transport |-> transport, runs |-> runs, clicks |-> 0]

\* one 5 MiB file has been selected: chunks 0 and 1, then chunk 2; the user
\* starts one upload; either provider calls may fail or a fetch may be lost
Init ==
  /\ ServerInit
  /\ ClientIdle
  /\ settings = SlowSettings
  /\ selectedFiles = <<FileRecord("f1", "a.bin", 5 * MiB, 1)>>
  /\ scenario \in {Scenario(TRUE, 0, 1), Scenario(FALSE, MaxLost, 1)}

Next ==
  \/ Server
  \/ ClientNext

Spec ==
  Init /\ [][Next]_vars

\* =================================================================
\*        a free client of the action protocol (spec.md section 6)
\* =================================================================

\* the keys initialize has generated for a file id
KeysOf(fileId) ==
  {k \in 1..Len(generatedKeys) : generatedKeys[k] = fileId}

EnvSend(s) ==
  /\ net[s].pc \in {"idle", "done"}
  /\ envSent < MaxEnvRequests
  /\ envSent' = envSent + 1
  /\ \E fileId \in FileIds :
       \/ \E action \in {"initialize", "status", "complete"} :
            net' = [net EXCEPT ![s] = Request(action, fileId, 0, 0, 0)]
       \/ \E i \in 0..MaxEnvChunk, k \in KeysOf(fileId) :
            net' = [net EXCEPT ![s] = Request("upload", fileId, i, k, k)]
       \/ \E k \in {0} \cup KeysOf(fileId) :
            net' = [net EXCEPT ![s] = Request("abort", fileId, 0, k, k)]
  /\ UNCHANGED <<serverVars, abortsDone, clientVars>>

InitServer ==
  /\ ServerInit
  /\ ClientIdle
  /\ settings = SlowSettings
  /\ selectedFiles = <<>>
  /\ scenario = Scenario(TRUE, 0, 0)

NextServer ==
  \/ Server
  \/ \E s \in EnvSlots : EnvSend(s)

SpecServer ==
  InitServer /\ [][NextServer]_vars

\* =================================================================
\*        the server process restarts between two requests
\* =================================================================

\* the module is loaded again: its tables are the empty ones of their
\* declarations; what the provider holds stays
ServerRestart ==
  /\ \A s \in Slots : net[s].pc \in {"idle", "sent", "done"}
  /\ multipartUploads # EmptyMap \/ cancelledUploads # {} \/ fileKeyMap # EmptyMap
  /\ multipartUploads' = EmptyMap
  /\ cancelledUploads' = {}
  /\ fileKeyMap' = EmptyMap
  /\ abortsDone' = [f \in FileIds |-> 0]
  /\ UNCHANGED <<generatedKeys, s3Open, s3Objects, net, envSent, clientVars>>

\* one 5 MiB file, one upload, no provider failure and no lost fetch
InitRestart ==
  /\ ServerInit
  /\ ClientIdle
  /\ settings = SlowSettings
  /\ selectedFiles = <<FileRecord("f1", "a.bin", 5 * MiB, 1)>>
  /\ scenario = Scenario(FALSE, 0, 1)

NextRestart ==
  \/ Server
  \/ ClientNext
  \/ ServerRestart

SpecRestart ==
  InitRestart /\ [][NextRestart]_vars

\* =================================================================
\*        two files, one at a time; one file, two runs
\* =================================================================

\* one fetch may be lost and the user cancels or retries once
OneClick(runs) ==
  [Scenario(FALSE, MaxLost, runs) EXCEPT !.clicks = 1]

\* a 3 MiB file (chunks 0 and 1 in one window) and a 1 MiB file are selected
\* under the preset "slow": two batches of one file
InitBatches ==
  /\ ServerInit
  /\ ClientIdle
  /\ settings = SlowSettings
  /\ selectedFiles = <<FileRecord("f1", "a.bin", 3 * MiB, 1),
                       FileRecord("f2", "b.bin", 1 * MiB, 1)>>
  /\ scenario = OneClick(1)

SpecBatches ==
  InitBatches /\ [][Next]_vars

\* the chunks of a file go one at a time
SerialSettings ==
  [chunkSize |-> 2 * MiB, maxParallelChunks |-> 1, uploadConcurrency |-> 1]

\* one 3 MiB file (chunk 0, then chunk 1); startUpload may run a second
\* time, after a cancellation or a retry
InitRerun ==
  /\ ServerInit
  /\ ClientIdle
  /\ settings = SerialSettings
  /\ selectedFiles = <<FileRecord("f1", "a.bin", 3 * MiB, 1)>>
  /\ scenario = OneClick(MaxRuns)

SpecRerun ==
  InitRerun /\ [][Next]_vars

\* =================================================================
\*        two files, the upload is left alone
\* =================================================================

\* what the handler does for a client that never cancels
ServeUploads ==
  \E s \in Slots :
    \/ InitializeBegin(s)
    \/ InitializeEnd(s)
    \/ Status(s)
    \/ UploadBegin(s)
    \/ UploadEnd(s)
    \/ CompleteBegin(s)
    \/ CompleteEnd(s)

\* two files at a time
PairSettings ==
  [chunkSize |-> 2 * MiB, maxParallelChunks |-> 2, uploadConcurrency |-> 2]

\* two 1 MiB files are uploaded in one batch of two or in two batches of
\* one; provider calls may fail and a fetch may be lost
InitUnattended ==
  /\ ServerInit
  /\ ClientIdle
  /\ settings \in {PairSettings, SlowSettings}
  /\ selectedFiles = <<FileRecord("f1", "a.bin", 1 * MiB, 1),
                       FileRecord("f2", "b.bin", 1 * MiB, 1)>>
  /\ scenario = Scenario(TRUE, MaxLost, 1)

\* the user starts the upload and does nothing else
NextUnattended ==
  \/ ServeUploads
  \/ StartUpload
  \/ \E r \in Runs : QueueAdded(r)
  \/ \E r \in Runs, f \in FileIds : InitReturns(r, f)
  \/ \E r \in Runs, f \in FileIds, i \in ChunkIdx : StatusReturns(r, f, i)
  \/ \E r \in Runs, f \in FileIds, i \in ChunkIdx : UploadReturns(r, f, i)
  \/ \E r \in Runs, f \in FileIds : CompleteReturns(r, f)
  \/ \E r \in Runs, f \in FileIds : FileSettles(r, f)

SpecUnattended ==
  InitUnattended /\ [][NextUnattended]_vars

\* =================================================================
\*        every request returns in the end
\* =================================================================

\* the steps that are not the user's: the handlers of the server go on and
\* the client takes delivery of what has returned
UploadGoesOn ==
  \/ ServeUploads
  \/ \E r \in Runs : QueueAdded(r)
  \/ \E r \in Runs, f \in FileIds : InitReturns(r, f)
  \/ \E r \in Runs, f \in FileIds, i \in ChunkIdx : StatusReturns(r, f, i)
  \/ \E r \in Runs, f \in FileIds, i \in ChunkIdx : UploadReturns(r, f, i)
  \/ \E r \in Runs, f \in FileIds : CompleteReturns(r, f)
  \/ \E r \in Runs, f \in FileIds : FileSettles(r, f)

\* one 3 MiB file under the preset "slow": chunks 0 and 1 in one window;
\* provider calls may fail
InitReturning ==
  /\ ServerInit
  /\ ClientIdle
  /\ settings = SlowSettings
  /\ selectedFiles = <<FileRecord("f1", "a.bin", 3 * MiB, 1)>>
  /\ scenario = Scenario(TRUE, 0, 1)

\* no request and no callback waits for ever: the event loop and the
\* server take every step that stays possible
SpecReturning ==
  InitReturning /\ [][NextUnattended]_vars /\ WF_vars(UploadGoesOn)

\* =================================================================
\*        files are selected (prepareFiles, processFolder)
\* =================================================================

MaxDrop ==
  2
MaxUuids ==
  6

\* uuidv4(): the n-th identifier that is generated
Uuid(n) ==
  <<"u1", "u2", "u3", "u4", "u5", "u6", "u7", "u8", "u9">>[n]

\* the identifiers uuidv4() may have generated
UuidsUsed ==
  {Uuid(n) : n \in 1..MaxUuids}

\* the File objects the browser hands over: name, size, lastModified
SourceFiles ==
  [name : {"a.bin", "b.bin"}, size : {1 * MiB}, lastModified : {1, 2}]

\* the arguments of a call: Array.from(files)
FileArrays ==
  UNION {[1..n -> SourceFiles] : n \in 1..MaxDrop}

SameTriple(x, y) ==
  x.name = y.name /\ x.size = y.size /\ x.lastModified = y.lastModified

\* existing.some((existingFile) => the three fields are equal)
Selected(existing, x) ==
  \E i \in DOMAIN existing : SameTriple(existing[i], x)

\* fileArray.map(...): a record with a fresh id for every file
PreparedFiles(files, uuids) ==
  [k \in DOMAIN files |->
     FileRecord(Uuid(uuids + k), files[k].name, files[k].size, files[k].lastModified)]

\* preparedFiles.filter((newFile) => !existing.some(...))
RECURSIVE FilterNew(_, _)
FilterNew(preparedFiles, existing) ==
  IF preparedFiles = <<>> THEN <<>>
  ELSE (IF Selected(existing, Head(preparedFiles)) THEN <<>> ELSE <<Head(preparedFiles)>>)
         \o FilterNew(Tail(preparedFiles), existing)

\* prepareFiles(files) as created by the render whose selectedFiles is
\* closure; the state update appends to the array of the moment; reading:
\* is a folder read still under way afterwards
PrepareFiles(closure, files, reading) ==
  LET newFiles == FilterNew(PreparedFiles(files, prepare.uuids), closure)
  IN  /\ prepare.uuids + Len(files) <= MaxUuids
      /\ selectedFiles' = selectedFiles \o newFiles
      /\ prepare' = [prepare EXCEPT !.uuids = @ + Len(files), !.files = files,
                                    !.newFiles = newFiles, !.reading = reading]
      /\ UNCHANGED <<serverVars, net, envSent, abortsDone, isUploading, stats, settings, network,
                     run, task, chunk, lost, clicks, cancelledMid, scenario>>

\* onDrop of the drop zone of the current render
Drop ==
  /\ ~prepare.reading
  /\ \E files \in FileArrays : PrepareFiles(selectedFiles, files, FALSE)

\* files are dropped while a folder is being read
DropWhileReading ==
  /\ prepare.reading
  /\ \E files \in FileArrays : PrepareFiles(selectedFiles, files, TRUE)

\* processFolder(folderHandle) is called: it holds the prepareFiles of its
\* render while it reads the directory
ProcessFolder ==
  /\ ~prepare.reading
  /\ prepare' = [prepare EXCEPT !.reading = TRUE, !.closure = selectedFiles]
  /\ UNCHANGED <<serverVars, net, envSent, abortsDone, selectedFiles, isUploading, stats,
                 settings, network, run, task, chunk, lost, clicks, cancelledMid, scenario>>

\* the directory has been read: prepareFiles(files)
FolderRead ==
  /\ prepare.reading
  /\ \E files \in FileArrays : PrepareFiles(prepare.closure, files, FALSE)

InitSelect ==
  /\ ServerInit
  /\ ClientIdle
  /\ settings = SlowSettings
  /\ selectedFiles = <<>>
  /\ scenario = Scenario(FALSE, 0, 0)

NextSelect ==
  \/ Drop
  \/ DropWhileReading
  \/ ProcessFolder
  \/ FolderRead

SpecSelect ==
  InitSelect /\ [][NextSelect]_vars

\* =================================================================
\*        files of every size, chunks of every size
\* =================================================================

MaxSize ==
  6
MaxChunkSize ==
  3

\* one file of 0 to MaxSize MiB and a chunk size of 1 to MaxChunkSize MiB,
\* such that the file has at most MaxChunkIndex + 1 chunks; nothing fails
InitChunking ==
  /\ ServerInit
  /\ ClientIdle
  /\ \E size \in 0..MaxSize, chunkSize \in 1..MaxChunkSize :
       /\ CeilDiv(size * MiB, chunkSize * MiB) <= MaxChunkIndex + 1
       /\ settings = [SlowSettings EXCEPT !.chunkSize = chunkSize * MiB]
       /\ selectedFiles = <<FileRecord("f1", "a.bin", size * MiB, 1)>>
  /\ scenario = Scenario(FALSE, 0, 1)

SpecChunking ==
  InitChunking /\ [][NextUnattended]_vars

\* =================================================================
\*        the user removes files from the selection
\* =================================================================

\* prevFiles.filter((file) => file.id !== fileId)
RemoveFile(files, fileId) ==
  SelectSeq(files, LAMBDA file : file.id # fileId)

\* handleRemove of a file item: an uploading file is cancelled first, then
\* removeFile(file.id); the button is disabled for a completed file
HandleRemove(fileId) ==
  LET uploading == StatusOf(selectedFiles, fileId) = "uploading"
      c == IF uploading
           THEN [SetStatus(Client, fileId, "cancelled", NoProgress, NoError)
                   EXCEPT !.net[CancelSlot(fileId)] = Request("abort", fileId, 0, 0, 0)]
           ELSE Client
  IN  /\ HasFile(selectedFiles, fileId)
      /\ StatusOf(selectedFiles, fileId) # "completed"
      /\ uploading => net[CancelSlot(fileId)].pc = "idle"
      /\ Commit([c EXCEPT !.files = RemoveFile(@, fileId)])
      /\ MarkCancelled({fileId})
      /\ Click
      /\ UNCHANGED <<serverVars, envSent, abortsDone, settings, network, prepare, lost, scenario>>

\* the button Clear All (enabled when nothing uploads): clearSelectedFiles()
ClearSelectedFiles ==
  /\ ~isUploading
  /\ Len(selectedFiles) > 0
  /\ selectedFiles' = <<>>
  /\ Click
  /\ UNCHANGED <<serverVars, net, envSent, abortsDone, isUploading, stats, settings, network,
                 run, task, chunk, lost, prepare, cancelledMid, scenario>>

NextRemove ==
  \/ Next
  \/ \E f \in FileIds : HandleRemove(f)
  \/ ClearSelectedFiles

\* the two files of InitBatches; the user cancels, retries or removes once
SpecRemove ==
  InitBatches /\ [][NextRemove]_vars

\* files are selected, removed from the selection, and the selection is
\* cleared
NextSelection ==
  \/ NextSelect
  \/ \E f \in UuidsUsed : HandleRemove(f)
  \/ ClearSelectedFiles

\* two files were selected and the selection was cleared: nothing is
\* selected; the user removes a file or clears the selection once more
InitSelection ==
  /\ ServerInit
  /\ NothingUnderWay
  /\ network = Network("slow")
  /\ prepare = [NoPrepare EXCEPT !.uuids = 2]
  /\ settings = SlowSettings
  /\ selectedFiles = <<>>
  /\ scenario = [Scenario(FALSE, 0, 0) EXCEPT !.clicks = 1]

SpecSelection ==
  InitSelection /\ [][NextSelection]_vars

\* =================================================================
\*        the user changes the upload settings while files upload
\* =================================================================

PresetNames ==
  {"slow", "medium"}

\* the values the user moves a slider to
SliderValues ==
  {1, 2}

\* switch (actualPreset) of applyNetworkPreset
PresetSettings(preset) ==
  CASE preset = "slow" ->
         [chunkSize |-> 2 * MiB, maxParallelChunks |-> 2, uploadConcurrency |-> 1]
    [] preset = "medium" ->
         [chunkSize |-> 5 * MiB, maxParallelChunks |-> 3, uploadConcurrency |-> 3]
    [] preset = "fast" ->
         [chunkSize |-> 10 * MiB, maxParallelChunks |-> 5, uploadConcurrency |-> 5]
    [] preset = "ultrafast" ->
         [chunkSize |-> 20 * MiB, maxParallelChunks |-> 10, uploadConcurrency |-> 8]
    [] OTHER ->
         [chunkSize |-> 5 * MiB, maxParallelChunks |-> 3, uploadConcurrency |-> 3]

\* preset === "auto" ? networkStats.detectedPreset || "medium" : preset
ActualPreset(preset) ==
  IF preset = "auto"
  THEN (IF network.detectedPreset = "" THEN "medium" ELSE network.detectedPreset)
  ELSE preset

\* every control of the settings panel is disabled while isUploading; the
\* preset in use is a manual one, so the sliders are enabled otherwise
ControlsEnabled ==
  ~isUploading

\* a slider is disabled in auto mode as well
SlidersEnabled ==
  ControlsEnabled /\ network.networkPreset # "auto"

\* a preset button: handleApplyNetworkPreset(preset), applyNetworkPreset(preset)
ApplyNetworkPreset(preset) ==
  /\ ControlsEnabled
  /\ settings' = PresetSettings(ActualPreset(preset))
  /\ network' = [network EXCEPT !.networkPreset = preset]
  /\ Click
  /\ UNCHANGED <<serverVars, net, envSent, abortsDone, selectedFiles, isUploading, stats,
                 run, task, chunk, lost, prepare, cancelledMid, scenario>>

\* the chunk size slider: setChunkSizeMB(sizeMB)
SetChunkSizeMB(sizeMB) ==
  /\ SlidersEnabled
  /\ settings' = [settings EXCEPT !.chunkSize = sizeMB * MiB]
  /\ Click
  /\ UNCHANGED <<serverVars, net, envSent, abortsDone, selectedFiles, isUploading, stats,
                 network, run, task, chunk, lost, prepare, cancelledMid, scenario>>

\* the parallel chunks slider: updateMaxParallelChunks(value)
UpdateMaxParallelChunks(value) ==
  /\ SlidersEnabled
  /\ settings' = [settings EXCEPT !.maxParallelChunks = value]
  /\ Click
  /\ UNCHANGED <<serverVars, net, envSent, abortsDone, selectedFiles, isUploading, stats,
                 network, run, task, chunk, lost, prepare, cancelledMid, scenario>>

\* the concurrent files slider: updateUploadConcurrency(value)
UpdateUploadConcurrency(value) ==
  /\ SlidersEnabled
  /\ settings' = [settings EXCEPT !.uploadConcurrency = value]
  /\ Click
  /\ UNCHANGED <<serverVars, net, envSent, abortsDone, selectedFiles, isUploading, stats,
                 network, run, task, chunk, lost, prepare, cancelledMid, scenario>>

\* the user makes two operations in all
TwoClicks ==
  [Scenario(FALSE, 0, 1) EXCEPT !.clicks = 2]

\* one 3 MiB file, a manual preset; one upload
InitSettings ==
  /\ ServerInit
  /\ ClientIdle
  /\ settings = PresetSettings("slow")
  /\ selectedFiles = <<FileRecord("f1", "a.bin", 3 * MiB, 1)>>
  /\ scenario = TwoClicks

NextSettings ==
  \/ Next
  \/ \E preset \in PresetNames : ApplyNetworkPreset(preset)
  \/ \E sizeMB \in SliderValues : SetChunkSizeMB(sizeMB)
  \/ \E value \in SliderValues : UpdateMaxParallelChunks(value)
  \/ \E value \in SliderValues : UpdateUploadConcurrency(value)

SpecSettings ==
  InitSettings /\ [][NextSettings]_vars

\* =================================================================
\*        the network is probed and presets are applied
\* =================================================================

\* what a probe measures: Mbps and milliseconds around the thresholds
Speeds ==
  {5, 6, 20, 21, 50, 51}

RoundTrips ==
  {0, 49, 50, 99, 100, 199, 200}

\* the names applyNetworkPreset is called with
PresetInputs ==
  {"slow", "medium", "fast", "ultrafast", "auto", "turbo"}

\* a variant whose thresholds are inclusive
DetectPresetInclusive(uploadSpeedMbps, rtt) ==
  IF uploadSpeedMbps >= 50 /\ rtt <= 50 THEN "ultrafast"
  ELSE IF uploadSpeedMbps >= 20 /\ rtt <= 100 THEN "fast"
  ELSE IF uploadSpeedMbps >= 5 /\ rtt <= 200 THEN "medium"
  ELSE "slow"

\* let detectedPreset = "medium"; if ... else if ... else ...
DetectPreset(uploadSpeedMbps, rtt) ==
  IF uploadSpeedMbps > 50 /\ rtt < 50 THEN "ultrafast"
  ELSE IF uploadSpeedMbps > 20 /\ rtt < 100 THEN "fast"
  ELSE IF uploadSpeedMbps > 5 /\ rtt < 200 THEN "medium"
  ELSE "slow"

\* testNetworkSpeed() of the context is called: it holds the networkPreset
\* of its render while it measures
ContextProbeBegins ==
  /\ network.contextProbe.pc = "idle"
  /\ network' = [network EXCEPT !.contextProbe =
                    [pc |-> "testing", auto |-> network.networkPreset = "auto"]]
  /\ UNCHANGED <<serverVars, net, envSent, abortsDone, selectedFiles, isUploading, stats,
                 settings, run, task, chunk, lost, clicks, prepare, cancelledMid, scenario>>

\* its measurement is made, or a request of it has failed: setNetworkStats,
\* and applyNetworkPreset(detectedPreset, true) when its networkPreset is auto
ContextProbeEnds ==
  /\ network.contextProbe.pc = "testing"
  /\ \/ \E uploadSpeedMbps \in Speeds, rtt \in RoundTrips :
          LET detectedPreset == DetectPreset(uploadSpeedMbps, rtt)
              auto == network.contextProbe.auto
          IN  /\ network' = [network EXCEPT
                               !.contextProbe = NoProbe,
                               !.uploadSpeedMbps = uploadSpeedMbps,
                               !.rtt = rtt,
                               !.detectedPreset = detectedPreset,
                               !.networkPreset = IF auto THEN "auto" ELSE @]
              /\ settings' = IF auto THEN PresetSettings(detectedPreset) ELSE settings
     \/ /\ network' = [network EXCEPT !.contextProbe = NoProbe]
        /\ UNCHANGED settings
  /\ UNCHANGED <<serverVars, net, envSent, abortsDone, selectedFiles, isUploading, stats,
                 run, task, chunk, lost, clicks, prepare, cancelledMid, scenario>>

\* testNetworkSpeed() of the settings panel is called, by its effect or by
\* the button Test Network
PanelProbeBegins ==
  /\ network.panelProbe.pc = "idle"
  /\ network' = [network EXCEPT !.panelProbe =
                    [pc |-> "testing", auto |-> network.networkPreset = "auto"]]
  /\ UNCHANGED <<serverVars, net, envSent, abortsDone, selectedFiles, isUploading, stats,
                 settings, run, task, chunk, lost, clicks, prepare, cancelledMid, scenario>>

\* its measurement is made, or a request of it has thrown: the panel's
\* setNetworkStats, and applyNetworkPreset(detectedPreset) when its
\* networkPreset is auto
PanelProbeEnds ==
  /\ network.panelProbe.pc = "testing"
  /\ \/ \E uploadSpeedMbps \in Speeds, rtt \in RoundTrips :
          LET detectedPreset == DetectPreset(uploadSpeedMbps, rtt)
              auto == network.panelProbe.auto
          IN  /\ network' = [network EXCEPT
                               !.panelProbe = NoProbe,
                               !.panelDetected = detectedPreset,
                               !.networkPreset = IF auto THEN detectedPreset ELSE @]
              /\ settings' = IF auto THEN PresetSettings(detectedPreset) ELSE settings
     \/ /\ network' = [network EXCEPT !.panelProbe = NoProbe]
        /\ UNCHANGED settings
  /\ UNCHANGED <<serverVars, net, envSent, abortsDone, selectedFiles, isUploading, stats,
                 run, task, chunk, lost, clicks, prepare, cancelledMid, scenario>>

\* the button Auto: handleApplyNetworkPreset("auto") applies the preset the
\* panel detected last and calls the testNetworkSpeed of its render
SelectAuto ==
  LET preset == IF network.panelDetected = "" THEN "medium" ELSE network.panelDetected
  IN  /\ ControlsEnabled
      /\ network.panelProbe.pc = "idle"
      /\ settings' = PresetSettings(preset)
      /\ network' = [network EXCEPT
                       !.networkPreset = preset,
                       !.panelProbe = [pc |-> "testing",
                                       auto |-> network.networkPreset = "auto"]]
      /\ UNCHANGED <<serverVars, net, envSent, abortsDone, selectedFiles, isUploading, stats,
                     run, task, chunk, lost, clicks, prepare, cancelledMid, scenario>>

\* a new session: auto mode, the default settings, nothing is selected
InitPresets ==
  /\ ServerInit
  /\ ClientAtRest
  /\ network = Network("auto")
  /\ settings = PresetSettings("medium")
  /\ selectedFiles = <<>>
  /\ scenario = Scenario(FALSE, 0, 0)

NextPresets ==
  \/ ContextProbeBegins
  \/ ContextProbeEnds
  \/ PanelProbeBegins
  \/ PanelProbeEnds
  \/ SelectAuto
  \/ \E preset \in PresetInputs : ApplyNetworkPreset(preset)

SpecPresets ==
  InitPresets /\ [][NextPresets]_vars

\* =================================================================
\*        object keys (generateFileKey); text is a sequence of characters
\* =================================================================

MaxNameLen == 3

\* the characters of the file names: word characters, whitespace, '.', '-'
\* and two characters outside these classes
NameChars ==
  {"a", "7", "_", " ", "\t", ".", "-", "/", "#"}

\* \w
WordChars ==
  {"a", "7", "_"}

\* \s
WhiteSpace ==
  {" ", "\t"}

FileNames ==
  UNION {[1..n -> NameChars] : n \in 0..MaxNameLen}

\* randomBytes(4).toString("hex")
UniqueIds ==
  {<<"0", "0", "a", "1", "b", "2", "c", "3">>, <<"f", "f", "f", "f", "f", "f", "f", "f">>}

\* new Date(): getFullYear(), getMonth() (0 for January), getDate()
Dates ==
  [fullYear : {2024}, month : {8, 9}, date : {9, 10}]

Digit(n) ==
  <<"0", "1", "2", "3", "4", "5", "6", "7", "8", "9">>[n + 1]

\* String(n) of a natural number
RECURSIVE NumberText(_)
NumberText(n) ==
  IF n < 10 THEN <<Digit(n)>> ELSE NumberText(n \div 10) \o <<Digit(n % 10)>>

\* text.padStart(targetLength, "0")
RECURSIVE PadStart(_, _)
PadStart(text, targetLength) ==
  IF Len(text) >= targetLength THEN text ELSE PadStart(<<"0">> \o text, targetLength)

\* fileName.replace(/[^\w\s.-]/g, "")
RemoveUnsafe(fileName) ==
  SelectSeq(fileName, LAMBDA ch : ch \in WordChars \cup WhiteSpace \cup {".", "-"})

\* a variant that turns every whitespace character into a dash
RECURSIVE DashEachSpace(_)
DashEachSpace(text) ==
  IF text = <<>> THEN <<>>
  ELSE <<IF Head(text) \in WhiteSpace THEN "-" ELSE Head(text)>> \o DashEachSpace(Tail(text))

\* text.replace(/\s+/g, "-")
RECURSIVE DashSpaces(_)
DashSpaces(text) ==
  IF text = <<>> THEN <<>>
  ELSE IF Head(text) \notin WhiteSpace THEN <<Head(text)>> \o DashSpaces(Tail(text))
  ELSE IF Len(text) > 1 /\ text[2] \in WhiteSpace THEN DashSpaces(Tail(text))
  ELSE <<"-">> \o DashSpaces(Tail(text))

CleanName(fileName) ==
  DashSpaces(RemoveUnsafe(fileName))

GenerateFileKey(fileName, now, uniqueId) ==
  LET year == NumberText(now.fullYear)
      month == PadStart(NumberText(now.month + 1), 2)
      day == PadStart(NumberText(now.date), 2)
  IN  <<"u", "p", "l", "o", "a", "d", "s", "/">> \o year \o <<"-">> \o month \o <<"-">>
        \o day \o <<"/">> \o uniqueId \o <<"-">> \o CleanName(fileName)

\* initialize up to the provider call: the key is generated and recorded
KeyGenerated(fileId) ==
  /\ fileId \notin DOMAIN fileKeyMap
  /\ fileKeyMap' = MapSet(fileKeyMap, fileId,
                          GenerateFileKey(scenario.fileName, scenario.now, scenario.uniqueId))
  /\ UNCHANGED <<multipartUploads, cancelledUploads, generatedKeys, s3Open, s3Objects,
                 net, envSent, abortsDone, clientVars>>

\* the clock, the random source and the file name of the requests
InitKeys ==
  /\ ServerInit
  /\ ClientIdle
  /\ settings = SlowSettings
  /\ selectedFiles = <<>>
  /\ scenario \in [fileName : FileNames, now : Dates, uniqueId : UniqueIds]

NextKeys ==
  \E fileId \in FileIds : KeyGenerated(fileId)

SpecKeys ==
  InitKeys /\ [][NextKeys]_vars

\* =================================================================
\*                          PROPERTIES
\* =================================================================

StatusNow(fileId) ==
  StatusOf(selectedFiles, fileId)

StatusNext(fileId) ==
  StatusOf(selectedFiles', fileId)

\* C1: once the status of a file record is completed or cancelled, no step
\* changes it to another value.
C1_TerminalStatusesAreFinal ==
  [][\A i \in DOMAIN selectedFiles :
       selectedFiles[i].status \in {"completed", "cancelled"}
         => selectedFiles'[i].status = selectedFiles[i].status]_vars

\* every callback of a file is over
TasksOver(fileId) ==
  \A r \in Runs : task[<<r, fileId>>].pc \in {"idle", "settled"}

\* C2: a file cancelled while it is uploading, before its final window of
\* chunks starts, never has a complete request sent for it, is never
\* completed, and is cancelled when its callback is over.  Stated for the
\* executions in which no fetch has been lost, where it fails already.
C2_CancelMidTransferEndsCancelled ==
  \A f \in FileIds :
    (cancelledMid[f] /\ lost = 0) =>
      /\ \A r \in Runs : net[TaskSlot(r, f)].action # "complete"
      /\ StatusNow(f) # "completed"
      /\ TasksOver(f) => StatusNow(f) = "cancelled"

\* a step of the client takes delivery of an answer of the server that
\* carries cancelled: true, for a request about fileId
ConsumesCancelledAnswer(fileId) ==
  \E s \in ClientSlots :
    /\ s[1] \in {"task", "chunk"}
    /\ s[3] = fileId
    /\ net[s].pc = "done"
    /\ net[s].resp.cancelled
    /\ net'[s] # net[s]
    /\ lost' = lost

\* C3: when the server answers a request of a file with the cancelled
\* payload, the file is not set to failed, gets no error message and its
\* retryCount is not incremented.
C3_CancellationIsNotAFailure ==
  [][\A f \in FileIds :
       (HasFile(selectedFiles, f) /\ ConsumesCancelledAnswer(f)) =>
          /\ StatusNext(f) = "failed" => StatusNow(f) = "failed"
          /\ FindFile(selectedFiles', f).retryCount = FindFile(selectedFiles, f).retryCount
          /\ FindFile(selectedFiles', f).error = FindFile(selectedFiles, f).error]_vars

PartNumbers(parts) ==
  [k \in DOMAIN parts |-> parts[k].PartNumber]

\* C4: the part list a complete request of the client hands to the provider
\* is exactly 1..totalChunks, each once, ascending.
C4_CompleteHandsOverEveryPartOnce ==
  \A r \in Runs, f \in FileIds :
    net[TaskSlot(r, f)].pc = "completeMpu" =>
      PartNumbers(net[TaskSlot(r, f)].parts) = [k \in 1..TotalChunks(Client, r, f) |-> k]

AbortsSucceeded(fileId) ==
  \A s \in Slots :
    (net[s].action = "abort" /\ net[s].fileId = fileId /\ net[s].pc = "done")
      => net[s].resp = AbortSuccess

\* C5 (amended): after two aborts of a file id answered in succession, both
\* answers are successes and the server holds no session record and no
\* key-lookup entry for the id.
C5_DoubleAbortClearsTheTables ==
  \A f \in FileIds :
    abortsDone[f] >= 2 =>
      /\ AbortsSucceeded(f)
      /\ f \notin DOMAIN multipartUploads
      /\ f \notin DOMAIN fileKeyMap

\* two aborts of an id that had a session have been answered in succession
W5_DoubleAbortAfterSession ==
  \E f \in FileIds : abortsDone[f] = 2 /\ KeysOf(f) # {}

\* C5 as stated: moreover no open multipart upload and no object at a key of
\* the id remains at the provider.
C5_DoubleAbortLeavesNothing ==
  \A f \in FileIds :
    abortsDone[f] >= 2 =>
      /\ AbortsSucceeded(f)
      /\ f \notin DOMAIN multipartUploads
      /\ f \notin DOMAIN fileKeyMap
      /\ \A k \in KeysOf(f) : k \notin s3Open /\ k \notin DOMAIN s3Objects

\* C6: an abort that has passed its first statement has put the id in the
\* cancellation set, and every answer to an abort is a success, whatever the
\* state of the id and whatever the provider calls did.
C6_AbortAlwaysAccepted ==
  \A s \in Slots :
    (net[s].action = "abort" /\ net[s].pc # "sent") =>
      /\ net[s].fileId \in cancelledUploads
      /\ net[s].pc = "done" => net[s].resp = AbortSuccess

\* an abort was answered with success although the provider did not abort the
\* multipart upload
W6_AbortSucceedsWhenProviderFails ==
  \E s \in Slots :
    /\ net[s].action = "abort"
    /\ net[s].pc = "done"
    /\ net[s].resp = AbortSuccess
    /\ net[s].actualUploadId \in s3Open
    /\ net[s].fileId \in cancelledUploads

\* C7: an initialize for an id of the cancellation set is let through and
\* takes the id out of the set.
C7_InitializeClearsCancellation ==
  [][\A s \in Slots :
       (/\ net[s].pc = "sent"
        /\ net[s].action = "initialize"
        /\ net[s].fileId \in cancelledUploads
        /\ net'[s] # net[s])
         => /\ net'[s].pc = "create"
            /\ net[s].fileId \notin cancelledUploads']_vars

PartCount(parts, n) ==
  Cardinality({k \in DOMAIN parts : parts[k].PartNumber = n})

\* C8: every accepted upload appends exactly one part record to the session,
\* whatever the records already there, and complete hands every record of the
\* session to the provider.
C8_UploadAppends ==
  [][\A s \in Slots :
       /\ (net[s].pc = "uploadPart" /\ net'[s].pc = "done" /\ net'[s].resp.success) =>
            /\ net[s].fileId \in DOMAIN multipartUploads
            /\ multipartUploads'[net[s].fileId].parts =
                 Append(multipartUploads[net[s].fileId].parts,
                        [PartNumber |-> net[s].currentChunk + 1,
                         ETag |-> net[s].currentChunk])
       /\ (net[s].pc = "sent" /\ net'[s].pc = "completeMpu") =>
            /\ Len(net'[s].parts) = Len(multipartUploads[net[s].fileId].parts)
            /\ \A n \in 1..(MaxEnvChunk + 1) :
                 PartCount(net'[s].parts, n)
                   = PartCount(multipartUploads[net[s].fileId].parts, n)]_vars

\* the same chunk index was uploaded twice and complete hands both records to
\* the provider
W8_DuplicatePartHandedOver ==
  \E s \in Slots :
    /\ net[s].pc = "completeMpu"
    /\ \E n \in 1..(MaxEnvChunk + 1) : PartCount(net[s].parts, n) = 2

\* C9: the answer to a status request carries cancelled: true exactly when the
\* id is in the cancellation set, and answering changes neither the session
\* table, nor the cancellation set, nor the key lookup.
C9_StatusIsAPureRead ==
  [][\A s \in Slots :
       (net[s].pc = "sent" /\ net[s].action = "status" /\ net'[s].pc = "done") =>
          /\ net'[s].resp.cancelled = (net[s].fileId \in cancelledUploads)
          /\ UNCHANGED <<multipartUploads, cancelledUploads, fileKeyMap>>]_vars

\* one status request was answered cancelled: false and another, for an
\* aborted id, cancelled: true
W9_StatusBeforeAndAfterAbort ==
  \E s, t \in Slots :
    /\ net[s].action = "status" /\ net[s].pc = "done"
    /\ ~net[s].resp.cancelled
    /\ net[t].action = "status" /\ net[t].pc = "done"
    /\ net[t].resp.cancelled
    /\ net[t].fileId \in cancelledUploads

\* C10: an upload request for an id of the cancellation set is answered with
\* the 409 payload carrying cancelled: true, without a provider call and
\* without a change to any session.
C10_UploadOfCancelledIsRejected ==
  [][\A s \in Slots :
       (/\ net[s].pc = "sent"
        /\ net[s].action = "upload"
        /\ net[s].fileId \in cancelledUploads
        /\ net'[s] # net[s])
         => /\ net'[s] = Respond(net[s], CancelledPayload)
            /\ UNCHANGED <<multipartUploads, s3Open, s3Objects>>]_vars

\* an upload for a cancelled id that had an open session was answered 409
W10_UploadRejected ==
  \E s \in Slots :
    /\ net[s].action = "upload"
    /\ net[s].pc = "done"
    /\ net[s].resp = CancelledPayload
    /\ net[s].resp.status = HTTP_CONFLICT
    /\ net[s].uploadId \in KeysOf(net[s].fileId)

\* a request of fileId for upload or complete is taken up while the id has no
\* session record
TakenUpWithoutSession(s) ==
  /\ net[s].pc = "sent"
  /\ net[s].action \in {"upload", "complete"}
  /\ net[s].fileId \notin DOMAIN multipartUploads
  /\ net'[s].pc \notin {"sent", "idle"}

\* the client takes delivery of the answer "session not found"
ConsumesSessionNotFound(s) ==
  /\ net[s].pc = "done"
  /\ net[s].resp = SessionNotFound
  /\ net'[s] # net[s]
  /\ lost' = lost

\* what the client does with a session-not-found answer for file f: the
\* chunk is tried again, or the file is set to failed, a status from which
\* retryFailedUploads and startUpload take it up again
HandledAsFailure(r, f) ==
  /\ StatusNext(f) \in {StatusNow(f), "failed"}
  /\ task'[<<r, f>>].pc \notin {"complete", "completing"}
  /\ task[<<r, f>>].pc = "complete" =>
       /\ StatusNext(f) = "failed"
       /\ f \in {Eligible(selectedFiles')[k] : k \in DOMAIN Eligible(selectedFiles')}
  /\ \A i \in ChunkIdx :
       (chunk[<<r, f, i>>].pc = "upload" /\ ConsumesSessionNotFound(ChunkSlot(r, f, i))) =>
          /\ chunk'[<<r, f, i>>].attempts = chunk[<<r, f, i>>].attempts + 1
          /\ chunk'[<<r, f, i>>].pc \in {"upload", "status", "rejected"}
          /\ chunk'[<<r, f, i>>].pc = "rejected" <=>
               chunk'[<<r, f, i>>].attempts >= MAX_RETRIES
          /\ (chunk'[<<r, f, i>>].pc = "rejected" /\ task[<<r, f>>].pc = "window")
               => StatusNext(f) = "failed"

\* C11 (amended): an upload or complete for an id without a session record is
\* answered 400 session not found, or with the 409 cancelled payload when the
\* id is in the cancellation set; no provider call is made and the session
\* table, the cancellation set and the key lookup stay as they are; the client
\* handles the 400 as a failure: the chunk is tried again up to MAX_RETRIES
\* and then the file is failed.
C11_NoSessionIsAClientError ==
  [][/\ \A s \in Slots :
          TakenUpWithoutSession(s) =>
            /\ net'[s] = Respond(net[s],
                 IF net[s].fileId \in cancelledUploads
                 THEN CancelledPayload ELSE SessionNotFound)
            /\ net'[s].resp.status \in {HTTP_BAD_REQUEST, HTTP_CONFLICT}
            /\ UNCHANGED <<multipartUploads, cancelledUploads, fileKeyMap, s3Open, s3Objects>>
     /\ \A r \in Runs, f \in FileIds :
          (HasFile(selectedFiles, f)
             /\ \E s \in {TaskSlot(r, f)} \cup {ChunkSlot(r, f, i) : i \in ChunkIdx} :
                  ConsumesSessionNotFound(s))
            => HandledAsFailure(r, f)]_vars

\* the file has failed on the answer 400 to one of its chunks
W11_FailedOnSessionNotFound ==
  \E f \in FileIds :
    /\ HasFile(selectedFiles, f)
    /\ FindFile(selectedFiles, f).status = "failed"
    /\ FindFile(selectedFiles, f).error = <<"HTTP error", HTTP_BAD_REQUEST>>

\* C11 as stated: the answer is session not found also for an id that was
\* aborted.
C11_NoSessionIsSessionNotFound ==
  [][\A s \in Slots :
       TakenUpWithoutSession(s) =>
         /\ net'[s] = Respond(net[s], SessionNotFound)
         /\ UNCHANGED <<multipartUploads, cancelledUploads, fileKeyMap, s3Open, s3Objects>>]_vars


\* the batch of run r file f is in: the index of f in filesToUpload over
\* uploadConcurrency
BatchOf(r, f) ==
  LET fs == run[r].filesToUpload
      k == CHOOSE j \in DOMAIN fs : fs[j] = f
  IN  (k - 1) \div run[r].uploadConcurrency

InRun(r, f) ==
  \E j \in DOMAIN run[r].filesToUpload : run[r].filesToUpload[j] = f

\* run r is transferring file f: the callback of the file has not returned,
\* or a request for one of its chunks is under way
BeingUploaded(r, f) ==
  \/ task[<<r, f>>].pc \notin {"idle", "settled"}
  \/ \E i \in ChunkIdx : net[ChunkSlot(r, f, i)].pc # "idle"

\* C12: within a run no file of batch n+1 is started before the callback of
\* every file of batch n has settled, and at most uploadConcurrency files of
\* the run are being uploaded at any moment.
C12_BatchesAreSequential ==
  /\ [][\A r \in Runs, f \in FileIds :
          (task[<<r, f>>].pc = "idle" /\ task'[<<r, f>>].pc # "idle") =>
             \A g \in FileIds :
               (InRun(r, g) /\ BatchOf(r, g) < BatchOf(r, f))
                  => task'[<<r, g>>].pc = "settled"]_vars
  /\ [](\A r \in Runs :
          Cardinality({f \in FileIds : BeingUploaded(r, f)}) <= run[r].uploadConcurrency)

\* the uploadChunk calls of file f that are between their first and their
\* last fetch, over all runs
InFlight(f) ==
  {k \in Runs \X {f} \X ChunkIdx : chunk[k].pc \in {"status", "upload"}}

\* the window of run r chunk i is in
WindowOf(r, i) ==
  i \div run[r].maxParallelChunks

\* C13: at most maxParallelChunks chunk transfers of a file are in flight at
\* any moment, and a chunk of window k+1 is issued only when every chunk of
\* window k has resolved.
C13_WindowBoundsChunksInFlight ==
  /\ [][\A r \in Runs, f \in FileIds, i \in ChunkIdx :
          (chunk[<<r, f, i>>].pc = "idle" /\ chunk'[<<r, f, i>>].pc # "idle") =>
             \A j \in ChunkIdx :
               WindowOf(r, j) < WindowOf(r, i) => chunk'[<<r, f, j>>].pc = "ok"]_vars
  /\ [](\A f \in FileIds : Cardinality(InFlight(f)) <= settings.maxParallelChunks)

\* everything the client and the server hold for file g: its record, its
\* callbacks and chunk calls, their requests, its session
FileState(g) ==
  <<FindFile(selectedFiles, g),
    [r \in Runs |-> task[<<r, g>>]],
    [k \in Runs \X ChunkIdx |-> chunk[<<k[1], g, k[2]>>]],
    [r \in Runs |-> net[TaskSlot(r, g)]],
    [k \in Runs \X ChunkIdx |-> net[ChunkSlot(k[1], g, k[2])]],
    IF g \in DOMAIN multipartUploads THEN <<multipartUploads[g]>> ELSE <<>>,
    g \in cancelledUploads>>

\* f and g are two files of the same batch of run r
Siblings(r, f, g) ==
  /\ f # g
  /\ InRun(r, f) /\ InRun(r, g)
  /\ BatchOf(r, f) = BatchOf(r, g)

\* the last callback of the current batch of run r settles
BatchSettles(r) ==
  LET currentFiles == CurrentFiles(run[r])
  IN  /\ run[r].pc = "batch"
      /\ \E k \in DOMAIN currentFiles : task[<<r, currentFiles[k]>>].pc # "settled"
      /\ \A k \in DOMAIN currentFiles : task'[<<r, currentFiles[k]>>].pc = "settled"

\* C14: no step of a started file, its failure at initialize, at a chunk or
\* at complete included, changes anything of another file of its batch, and
\* when the last file of a batch has settled, failed or not, the next batch
\* is started (or the run ends when there is none).
C14_FileErrorsAreIsolated ==
  [][/\ \A r \in Runs, f \in FileIds, g \in FileIds :
          (/\ Siblings(r, f, g)
           /\ task[<<r, f>>].pc # "idle"
           /\ FileState(f)' # FileState(f))
            => FileState(g)' = FileState(g)
     /\ \A r \in Runs :
          BatchSettles(r) =>
            LET nextFiles == CurrentFiles(run'[r])
            IN  /\ run'[r].currentBatch = run[r].currentBatch + 1
                /\ nextFiles = <<>> => (run'[r].pc = "done" /\ ~isUploading')
                /\ \A k \in DOMAIN nextFiles :
                     /\ task'[<<r, nextFiles[k]>>].pc = "init"
                     /\ StatusNext(nextFiles[k]) = "uploading"]_vars

\* in a batch of two, one file has failed and the other one has completed
\* and its object is in the bucket
W14_FailedBesideCompleted ==
  \E f, g \in FileIds :
    /\ f # g
    /\ StatusNow(f) = "failed"
    /\ task[<<1, f>>].pc = "settled"
    /\ settings = PairSettings
    /\ StatusNow(g) = "completed"
    /\ task[<<1, g>>].pc = "settled"
    /\ \E k \in DOMAIN s3Objects : generatedKeys[k] = g

\* C15: an uploadChunk call sends at most MAX_RETRIES upload requests; a
\* failed request is followed by another one while fewer than MAX_RETRIES
\* have failed; with the third failure the chunk is rejected and, the
\* dispatch of the file waiting for it, the file becomes failed; a chunk
\* resolves on its first, second or third request, counts once as completed
\* and does nothing afterwards.
C15_ChunkRetryCeiling ==
  [][\A r \in Runs, f \in FileIds, i \in ChunkIdx :
       LET k == <<r, f, i>>
       IN  /\ chunk'[k].sends <= MAX_RETRIES
           /\ (chunk[k].pc = "upload" /\ chunk'[k] # chunk[k]
                 /\ chunk'[k].pc \in {"upload", "status"}) =>
                /\ chunk'[k].attempts = chunk[k].attempts + 1
                /\ chunk'[k].attempts < MAX_RETRIES
           /\ (chunk[k].pc = "upload" /\ chunk'[k].pc = "rejected") =>
                /\ chunk'[k].attempts = MAX_RETRIES
                /\ chunk'[k].sends = MAX_RETRIES
                /\ task[<<r, f>>].pc = "window" =>
                     (StatusNext(f) = "failed" /\ task'[<<r, f>>].pc = "failing")
           /\ (chunk[k].pc # "ok" /\ chunk'[k].pc = "ok") =>
                /\ chunk[k].pc = "upload"
                /\ chunk[k].sends \in 1..MAX_RETRIES
                /\ chunk[k].attempts = chunk[k].sends - 1
                /\ task'[<<r, f>>].completedChunks = task[<<r, f>>].completedChunks + 1
           /\ chunk[k].pc \in {"ok", "rejected"} => chunk'[k] = chunk[k]]_vars

\* a chunk was rejected after three upload requests that the provider
\* failed and its file is failed,
\* while another chunk of the window resolved on a later request than its
\* first
W15_ThirdFailureFailsTheFile ==
  \E r \in Runs, f \in FileIds, i, j \in ChunkIdx :
    /\ chunk[<<r, f, i>>].pc = "rejected"
    /\ chunk[<<r, f, i>>].sends = MAX_RETRIES
    /\ StatusNow(f) = "failed"
    /\ FindFile(selectedFiles, f).error = <<"HTTP error", HTTP_ERROR>>
    /\ chunk[<<r, f, j>>].pc = "ok"
    /\ chunk[<<r, f, j>>].sends > 1

\* retryFailedUploads has found a failed file
RetryStep ==
  \E f \in FileIds : StatusNow(f) = "failed" /\ StatusNext(f) = "pending"

\* the step starts a run of startUpload that takes up every file that was
\* failed
RunBeginsWithFailed ==
  \E r \in Runs :
    /\ run[r].pc = "idle"
    /\ run'[r].pc = "queue"
    /\ isUploading'
    /\ \A i \in DOMAIN selectedFiles :
         selectedFiles[i].status = "failed" =>
           \E j \in DOMAIN run'[r].filesToUpload :
             run'[r].filesToUpload[j] = selectedFiles[i].id

\* every failed record becomes pending with progress 0, the other records
\* stay as they are
FailedAreReset ==
  /\ Len(selectedFiles') = Len(selectedFiles)
  /\ \A i \in DOMAIN selectedFiles :
       selectedFiles'[i] =
         IF selectedFiles[i].status = "failed"
         THEN [selectedFiles[i] EXCEPT !.status = "pending", !.progress = 0]
         ELSE selectedFiles[i]

\* a run takes a file up from the beginning: status uploading with progress
\* 0, an initialize request, no chunk completed, the window at chunk 0
StartsFromTheBeginning(r, f) ==
  /\ StatusNext(f) = "uploading"
  /\ FindFile(selectedFiles', f).progress = 0
  /\ net'[TaskSlot(r, f)] = Request("initialize", f, 0, 0, 0)
  /\ task'[<<r, f>>].batchStart = 0
  /\ task'[<<r, f>>].completedChunks = 0
  /\ \A i \in ChunkIdx : chunk'[<<r, f, i>>].pc = "idle"

\* what a run does with a file, whichever run it is: it starts from the
\* beginning, the session initialize creates has no parts, and the first
\* chunks issued are those of window 0
RunsAttemptFromChunkZero ==
  /\ \A r \in Runs, f \in FileIds :
       /\ (task[<<r, f>>].pc = "idle" /\ task'[<<r, f>>].pc # "idle")
            => StartsFromTheBeginning(r, f)
       /\ (task[<<r, f>>].pc = "init" /\ task'[<<r, f>>].pc = "window") =>
            /\ task'[<<r, f>>].batchStart = 0
            /\ \A i \in ChunkIdx :
                 chunk'[<<r, f, i>>].pc # "idle" <=> i < run[r].maxParallelChunks
  /\ \A s \in Slots :
       (net[s].pc = "create" /\ net'[s].pc = "done" /\ Ok(net'[s].resp)) =>
          /\ multipartUploads'[net[s].fileId].parts = <<>>
          /\ multipartUploads'[net[s].fileId].uploadId = net'[s].resp.uploadId
          /\ net'[s].resp.uploadId \notin
               {multipartUploads[g].uploadId : g \in DOMAIN multipartUploads}

PrepareStep ==
  prepare'.uuids # prepare.uuids

\* C17: prepareFiles adds and returns no file whose (name, size,
\* lastModified) is that of an already selected record, so that a call with
\* files that are all selected returns the empty list and leaves the
\* selection; it adds every file with a new triple once, as a record with
\* status pending, progress 0 and retryCount 0.
C17_PrepareFilesSuppressesDuplicates ==
  [][PrepareStep =>
       LET files == prepare'.files
           newFiles == prepare'.newFiles
           new == {k \in DOMAIN files : ~Selected(selectedFiles, files[k])}
       IN  /\ selectedFiles' = selectedFiles \o newFiles
           /\ \A k \in DOMAIN newFiles : ~Selected(selectedFiles, newFiles[k])
           /\ new = {} => (newFiles = <<>> /\ selectedFiles' = selectedFiles)
           /\ Len(newFiles) = Cardinality(new)
           /\ \A k \in new : \E j \in DOMAIN newFiles : SameTriple(newFiles[j], files[k])
           /\ \A j \in DOMAIN newFiles :
                /\ newFiles[j].status = "pending"
                /\ newFiles[j].progress = 0
                /\ newFiles[j].retryCount = 0]_vars

\* the bytes start..end-1
Bytes(range) ==
  range[1]..(range[2] - 1)

\* the range the dispatcher takes for chunk i of file f in run r
RangeOf(r, f, i) ==
  <<ChunkStart(i, run[r].chunkSize),
    ChunkEnd(i, run[r].chunkSize, FindFile(run[r].snapshot, f).size)>>

\* C18: a file of size S is cut with chunk size C into ceil(S/C) chunks,
\* chunk i being the bytes [i*C, min((i+1)*C, S)); every upload request
\* carries the range of its chunk; when the dispatcher is through, chunks
\* 0..totalChunks-1 and no others have been transferred, their ranges are
\* pairwise disjoint and their union is [0, S); the server hands chunk i to
\* the provider as part i+1.
C18_ChunksCoverTheFile ==
  [][/\ \A r \in Runs, f \in FileIds, i \in ChunkIdx :
          LET s == ChunkSlot(r, f, i)
              S == FindFile(run[r].snapshot, f).size
              C == run[r].chunkSize
          IN  (net'[s].action = "upload" /\ net'[s].pc = "sent") =>
                /\ net'[s].currentChunk = i
                /\ net'[s].chunkData = <<i * C, Min((i + 1) * C, S)>>
                /\ net'[s].chunkData[1] < net'[s].chunkData[2]
                /\ i < TotalChunks(Client, r, f)
     /\ \A r \in Runs, f \in FileIds :
          (task[<<r, f>>].pc # "complete" /\ task'[<<r, f>>].pc = "complete") =>
             LET S == FindFile(run[r].snapshot, f).size
                 C == run[r].chunkSize
                 totalChunks == TotalChunks(Client, r, f)
                 sent == {i \in ChunkIdx : chunk'[<<r, f, i>>].pc = "ok"}
             IN  /\ totalChunks * C >= S
                 /\ (totalChunks - 1) * C < S
                 /\ S = 0 => totalChunks = 0
                 /\ sent = 0..(totalChunks - 1)
                 /\ \A i \in ChunkIdx \ sent : chunk'[<<r, f, i>>].pc = "idle"
                 /\ \A i, j \in sent :
                      i # j => Bytes(RangeOf(r, f, i)) \cap Bytes(RangeOf(r, f, j)) = {}
                 /\ UNION {Bytes(RangeOf(r, f, i)) : i \in sent} = 0..(S - 1)
     /\ \A s \in Slots :
          (net[s].pc = "uploadPart" /\ net'[s].pc = "done" /\ Ok(net'[s].resp)) =>
             LET parts == multipartUploads'[net[s].fileId].parts
             IN  /\ net'[s].resp.partNumber = net[s].currentChunk + 1
                 /\ parts[Len(parts)].PartNumber = net[s].currentChunk + 1
                 /\ parts[Len(parts)].ETag = net[s].currentChunk]_vars

\* a 5 MiB file cut into chunks of 2 MiB has been completed: its last chunk
\* was the single byte range [4, 5), and the object has parts 1, 2, 3
W18_UnevenFileCompleted ==
  \E k \in DOMAIN s3Objects :
    /\ settings.chunkSize = 2 * MiB
    /\ selectedFiles[1].size = 5 * MiB
    /\ selectedFiles[1].status = "completed"
    /\ RangeOf(1, "f1", 2) = <<4 * MiB, 5 * MiB>>
    /\ PartNumbers(s3Objects[k]) = <<1, 2, 3>>

\* the progress a run computes for its file from its count of completed
\* chunks
ProgressOf(r, f) ==
  IF TotalChunks(Client, r, f) = 0 THEN 0
  ELSE Progress(task[<<r, f>>].completedChunks, TotalChunks(Client, r, f))

\* C19: while the status of a file is uploading its progress is an integer
\* of 0..100, it is floor(completedChunks / totalChunks * 100) of a run that
\* has taken the file up, and no step that leaves the status uploading
\* lowers it.
C19_ProgressNeverDecreases ==
  [][\A f \in FileIds :
       (HasFile(selectedFiles', f) /\ StatusNext(f) = "uploading") =>
          /\ FindFile(selectedFiles', f).progress \in 0..100
          /\ \E r \in Runs :
               /\ task'[<<r, f>>].pc # "idle"
               /\ FindFile(selectedFiles', f).progress = ProgressOf(r, f)'
          /\ StatusNow(f) = "uploading" =>
               FindFile(selectedFiles', f).progress >= FindFile(selectedFiles, f).progress]_vars

\* cancelUpload(fileId) sends its abort request
AbortSent(f) ==
  net[CancelSlot(f)].pc = "idle" /\ net'[CancelSlot(f)].pc = "sent"

\* the fetch of cancelUpload(fileId) is over, with an answer or without
\* one, and cancelUpload returns; isUploading: cancelAllUploads has not
\* been called, the request is the one of cancelUpload
CancelUploadReturns(f) ==
  /\ net[CancelSlot(f)].pc \in {"sent", "done"}
  /\ net'[CancelSlot(f)].pc = "idle"
  /\ isUploading

\* C20: the status of the file is cancelled when cancelUpload sends the
\* abort request, and it is cancelled when cancelUpload returns, whether
\* the request was answered or was lost.
C20_CancelledWhenCancelUploadReturns ==
  [][\A f \in FileIds :
       /\ AbortSent(f) => StatusNext(f) = "cancelled"
       /\ CancelUploadReturns(f) =>
            (StatusNow(f) = "cancelled" /\ StatusNext(f) = "cancelled")]_vars

\* a run of startUpload has not reached the end of its last batch
RunInProgress ==
  \E r \in Runs : run[r].pc \in {"queue", "batch"}

\* a call of startUpload gets past its two returns: it sets isUploading
\* and a run begins
RunBegins ==
  \E r \in Runs : run[r].pc = "idle" /\ run'[r].pc # "idle"

\* C21: startUpload does something only when no upload run is in progress
\* and some selected file is eligible; otherwise no status changes, no
\* request is sent and isUploading keeps its value.
C21_StartUploadOnlyWhenIdle ==
  [][RunBegins => (~RunInProgress /\ ~isUploading /\ Eligible(selectedFiles) # <<>>)]_vars

\* an uploadChunk call of a chunk that had not been issued begins: the
\* dispatcher starts a further window
ChunkIssued(f) ==
  \E r \in Runs, i \in ChunkIdx :
    chunk[<<r, f, i>>].pc = "idle" /\ chunk'[<<r, f, i>>].pc # "idle"

\* C22: after cancelUpload(fileId) was invoked for an uploading file of
\* which a window has been dispatched, the dispatcher's check before the
\* next window observes the cancelled status: no chunk of a window later
\* than the one in flight is ever issued.
C22_NoWindowAfterCancel ==
  [][\A f \in FileIds :
       (cancelledMid[f] /\ \E r \in Runs, i \in ChunkIdx : chunk[<<r, f, i>>].pc # "idle")
          => ~ChunkIssued(f)]_vars

\* the file id was in the server's cancellation set when chunk i began its
\* first attempt, and the server's answer to the status poll reaches uploadChunk
PollAnsweredCancelled(r, f, i) ==
  /\ chunk[<<r, f, i>>].pc = "status"
  /\ chunk[<<r, f, i>>].attempts = 0
  /\ chunk[<<r, f, i>>].cancelledBefore
  /\ net[ChunkSlot(r, f, i)].pc = "done"
  /\ net[ChunkSlot(r, f, i)].resp.cancelled
  /\ chunk'[<<r, f, i>>].pc # "status"
  /\ lost' = lost

\* C23: when the file id is in the server's cancellation set as a chunk whose
\* index is a multiple of 5 polls the status on its first attempt, the poll
\* reveals it: the chunk is not sent, the transfer of the chunk ends without
\* a retry and the dispatch of the file stops.
C23_PollCatchesCancellation ==
  [][\A r \in Runs, f \in FileIds, i \in ChunkIdx :
       PollAnsweredCancelled(r, f, i) =>
         /\ chunk'[<<r, f, i>>].pc # "upload"
         /\ chunk'[<<r, f, i>>].sends = 0
         /\ task'[<<r, f>>].pc # "window"]_vars

\* C24: while a file is being uploaded by a startUpload run, the setters and
\* applyNetworkPreset leave chunkSize, maxParallelChunks and
\* uploadConcurrency at the values they had when the upload started.
C24_SettingsKeptWhileUploading ==
  [][(\E r \in Runs, f \in FileIds : BeingUploaded(r, f)) => settings' = settings]_vars

\* run r transfers file f and the file is empty
ZeroLength(r, f) ==
  /\ run[r].pc # "idle"
  /\ HasFile(run[r].snapshot, f)
  /\ FindFile(run[r].snapshot, f).size = 0

\* the object the provider holds for the session the run was given
ObjectOf(r, f) ==
  s3Objects[task[<<r, f>>].fileKey]

RECURSIVE FirstSegment(_)
FirstSegment(text) ==
  IF text = <<>> \/ Head(text) = "/" THEN <<>>
  ELSE <<Head(text)>> \o FirstSegment(Tail(text))

\* text.split("/")
RECURSIVE Segments(_)
Segments(text) ==
  LET first == FirstSegment(text)
  IN  IF Len(first) = Len(text) THEN <<first>>
      ELSE <<first>> \o Segments(SubSeq(text, Len(first) + 2, Len(text)))

\* the number a text of digits denotes
RECURSIVE ToNumber(_)
ToNumber(text) ==
  IF text = <<>> THEN 0
  ELSE 10 * ToNumber(SubSeq(text, 1, Len(text) - 1))
         + (CHOOSE n \in 0..9 : Digit(n) = text[Len(text)])

\* the whitespace runs of a text
WhiteSpaceRuns(text) ==
  {i \in DOMAIN text : text[i] \in WhiteSpace /\ (i = 1 \/ text[i - 1] \notin WhiteSpace)}

\* the last segment is the random token, a dash and the sanitized name: of
\* the name's characters the word characters, '.' and '-' in their order,
\* and one dash for each whitespace run of what is left of the name
EndsWithSanitizedName(segment) ==
  LET kept == SelectSeq(scenario.fileName,
                        LAMBDA ch : ch \in WordChars \cup WhiteSpace \cup {".", "-"})
      name == SubSeq(segment, 10, Len(segment))
  IN  /\ Len(segment) >= 9
      /\ SubSeq(segment, 1, 8) = scenario.uniqueId
      /\ segment[9] = "-"
      /\ \A i \in DOMAIN name : name[i] \in WordChars \cup {".", "-"}
      /\ Len(name) = Len(SelectSeq(kept, LAMBDA ch : ch \notin WhiteSpace))
                       + Cardinality(WhiteSpaceRuns(kept))
      /\ SelectSeq(name, LAMBDA ch : ch # "-")
           = SelectSeq(kept, LAMBDA ch : ch \notin WhiteSpace \cup {"-"})

\* C26: the object key generated by initialize has the form
\* uploads/<year>-<month>-<day>/<random-id>-<sanitized-name>: exactly three
\* '/'-separated segments, the date as one segment with month and day of two
\* digits, then the random token, a dash and the sanitized name.
C26_KeyHasDateFolder ==
  \A f \in DOMAIN fileKeyMap :
    LET segments == Segments(fileKeyMap[f])
        date == segments[2]
    IN  /\ Len(segments) = 3
        /\ segments[1] = <<"u", "p", "l", "o", "a", "d", "s">>
        /\ Len(date) = 10 /\ date[5] = "-" /\ date[8] = "-"
        /\ ToNumber(SubSeq(date, 1, 4)) = scenario.now.fullYear
        /\ ToNumber(SubSeq(date, 6, 7)) = scenario.now.month + 1
        /\ ToNumber(SubSeq(date, 9, 10)) = scenario.now.date
        /\ EndsWithSanitizedName(segments[3])

\* a key was generated for a name with an unsafe character and whitespace
W26_KeyOfUnsafeName ==
  \E f \in DOMAIN fileKeyMap :
    /\ \E i \in DOMAIN scenario.fileName : scenario.fileName[i] \in {"/", "#"}
    /\ \E i \in DOMAIN scenario.fileName : scenario.fileName[i] \in WhiteSpace

\* C26 as stated: the key has exactly five '/'-separated segments, with year,
\* month and day as separate path segments before the token and the name.
C26_KeyHasFiveSegments ==
  \A f \in DOMAIN fileKeyMap :
    LET segments == Segments(fileKeyMap[f])
    IN  /\ Len(segments) = 5
        /\ ToNumber(segments[2]) = scenario.now.fullYear
        /\ ToNumber(segments[3]) = scenario.now.month + 1
        /\ ToNumber(segments[4]) = scenario.now.date
        /\ EndsWithSanitizedName(segments[5])

\* the per-file callbacks that catch an error of file f in this step: each
\* calls updateFileStatus(file.id, FAILED, 0, error.message)
FailuresCaught(f) ==
  {r \in Runs : task[<<r, f>>].pc # "failing" /\ task'[<<r, f>>].pc = "failing"}

\* C27: the retryCount of a file increases by exactly 1 each time the file is
\* set to failed, with the error message in the record, and nothing else
\* changes it: setting it to pending, uploading, completed or cancelled, a
\* retry and a cancellation included, leaves retryCount as it is.
C27_RetryCountCountsFailures ==
  [][\A f \in FileIds :
       HasFile(selectedFiles, f) =>
         LET before == FindFile(selectedFiles, f)
             after == FindFile(selectedFiles', f)
         IN  /\ HasFile(selectedFiles', f)
             /\ after.retryCount = before.retryCount + Cardinality(FailuresCaught(f))
             /\ FailuresCaught(f) # {} =>
                  (after.status = "failed" /\ after.error # NoError)
             /\ after.status # "failed" => after.retryCount = before.retryCount]_vars

\* a file that has failed was set to pending by a retry and keeps its count
W27_RetriedKeepsCount ==
  \E f \in FileIds :
    /\ HasFile(selectedFiles, f)
    /\ FindFile(selectedFiles, f).retryCount = 1
    /\ StatusOf(selectedFiles, f) \in {"pending", "uploading"}

\* every chunk of file f has resolved in run r with a successful answer
AllChunksOk(r, f) ==
  \A i \in 0..(TotalChunks(Client, r, f) - 1) : chunk[<<r, f, i>>].pc = "ok"

\* the answer to `complete` that run r holds for file f is a success
CompleteSucceeded(r, f) ==
  /\ task[<<r, f>>].pc = "complete"
  /\ net[TaskSlot(r, f)].pc = "done"
  /\ net[TaskSlot(r, f)].action = "complete"
  /\ net[TaskSlot(r, f)].resp.status = HTTP_OK
  /\ net[TaskSlot(r, f)].resp.success

\* C28: a file becomes completed only when every chunk 0..totalChunks-1 of
\* the attempt has had a successful upload answer and `complete` has
\* returned success, and its progress is then 100; `complete` is never sent
\* while a chunk is missing; the success statistics count a file only after
\* that.
C28_CompletedOnlyAfterComplete ==
  /\ [][\A f \in FileIds :
          (StatusOf(selectedFiles, f) # "completed" /\ StatusOf(selectedFiles', f) = "completed") =>
             /\ \E r \in Runs : /\ CompleteSucceeded(r, f)
                                /\ AllChunksOk(r, f)
                                /\ task'[<<r, f>>].pc = "completing"
             /\ FindFile(selectedFiles', f).progress = 100]_vars
  /\ [][\A r \in Runs, f \in FileIds :
          (task[<<r, f>>].pc # "complete" /\ task'[<<r, f>>].pc = "complete") =>
             /\ AllChunksOk(r, f)'
             /\ net'[TaskSlot(r, f)].action = "complete"]_vars
  /\ [][stats'.successCount # stats.successCount =>
          /\ stats'.successCount = stats.successCount + 1
          /\ \E r \in Runs, f \in FileIds :
               task[<<r, f>>].pc = "completing" /\ task'[<<r, f>>].pc = "settled"]_vars

\* a file of several chunks is completed and counted
W28_CompletedAndCounted ==
  \E r \in Runs, f \in FileIds :
    /\ task[<<r, f>>].pc = "settled"
    /\ StatusOf(selectedFiles, f) = "completed"
    /\ stats.successCount = 1
    /\ TotalChunks(Client, r, f) > 1

\* C29: cancelAllUploads sets to cancelled exactly the files that are
\* uploading when it is called and sends one abort for each of them; a file
\* that is pending, failed, completed or cancelled keeps its record, and no
\* abort is sent for it.
C29_CancelAllTakesTheUploading ==
  [][CancelAllUploads =>
       /\ Len(selectedFiles') = Len(selectedFiles)
       /\ \A i \in DOMAIN selectedFiles :
            LET before == selectedFiles[i]
                after == selectedFiles'[i]
                s == CancelSlot(before.id)
            IN  IF before.status = "uploading"
                THEN /\ after = [before EXCEPT !.status = "cancelled"]
                     /\ net[s].pc = "idle"
                     /\ net'[s].pc = "sent"
                     /\ net'[s].action = "abort"
                     /\ net'[s].fileId = before.id
                ELSE /\ after = before
                     /\ net'[s] = net[s]
       /\ \A s \in Slots : net'[s] # net[s] =>
            \E f \in FileIds : s = CancelSlot(f) /\ StatusOf(selectedFiles, f) = "uploading"]_vars

\* cancelAllUploads was called with one file uploading and one pending: the
\* first is cancelled, its abort has been sent, the second is still pending
W29_CancelledBesidePending ==
  /\ ~isUploading
  /\ RunInProgress
  /\ clicks = 1
  /\ net[CancelSlot("f1")].pc # "idle"
  /\ StatusOf(selectedFiles, "f1") = "cancelled"
  /\ StatusOf(selectedFiles, "f2") = "pending"

\* the handler in slot s answers action with the given status, having just
\* had the outcome of its provider call
Answers(s, action, pc, status) ==
  /\ net[s].action = action
  /\ net[s].pc = pc
  /\ net'[s].pc = "done"
  /\ net'[s].resp.status = status

HasSession(fileId) ==
  fileId \in DOMAIN multipartUploads

\* a `complete` of the id has succeeded and its object is at the provider
Completed(fileId) ==
  \E k \in KeysOf(fileId) : k \in DOMAIN s3Objects

\* a session record is made by a successful initialize only, and removed by
\* a successful complete or by an abort only; a successful complete removes
\* it together with the key-lookup entry, a complete the provider fails
\* keeps both
SessionLifetime ==
  /\ \A f \in FileIds :
       (~HasSession(f) /\ HasSession(f)') =>
          \E s \in Slots : net[s].fileId = f /\ Answers(s, "initialize", "create", HTTP_OK)
  /\ \A f \in FileIds :
       (HasSession(f) /\ ~HasSession(f)') =>
          \E s \in Slots :
            /\ net[s].fileId = f
            /\ \/ Answers(s, "complete", "completeMpu", HTTP_OK)
               \/ Answers(s, "abort", "deleteObj", HTTP_OK)
  /\ \A s \in Slots :
       Answers(s, "initialize", "create", HTTP_OK) => HasSession(net[s].fileId)'
  /\ \A s \in Slots :
       Answers(s, "complete", "completeMpu", HTTP_OK) =>
          /\ ~HasSession(net[s].fileId)'
          /\ net[s].fileId \notin DOMAIN fileKeyMap'
  /\ \A s \in Slots :
       Answers(s, "abort", "deleteObj", HTTP_OK) =>
          /\ ~HasSession(net[s].fileId)'
          /\ net[s].fileId \notin DOMAIN fileKeyMap'
  /\ \A s \in Slots :
       Answers(s, "complete", "completeMpu", HTTP_ERROR) =>
          UNCHANGED <<multipartUploads, fileKeyMap>>

\* an upload or complete of a completed id is taken up while the id has no
\* session record
FurtherRequest(s) ==
  TakenUpWithoutSession(s) /\ Completed(net[s].fileId)

\* C30 (amended): a session record exists for a file id from a successful
\* initialize until the next successful complete or any abort; a successful
\* complete removes the record and the key-lookup entry, a failed one keeps
\* them; a further upload or complete for the id is answered session not
\* found, or with the cancelled payload when the id was aborted meanwhile.
C30_SessionLifetime ==
  [][/\ SessionLifetime
     /\ \A s \in Slots :
          FurtherRequest(s) =>
            net'[s] = Respond(net[s],
                        IF net[s].fileId \in cancelledUploads
                        THEN CancelledPayload ELSE SessionNotFound)]_vars

\* an upload for a completed id has been answered session not found
W30_UploadAfterComplete ==
  \E s \in Slots :
    /\ net[s].pc = "done"
    /\ net[s].action = "upload"
    /\ net[s].resp = SessionNotFound
    /\ Completed(net[s].fileId)

\* C30 as stated: every further upload or complete for a completed id is
\* answered session not found.
C30_FurtherRequestIsSessionNotFound ==
  [][\A s \in Slots :
       FurtherRequest(s) => net'[s] = Respond(net[s], SessionNotFound)]_vars

\* an abort of the id is between two awaits
AbortUnderWay(fileId) ==
  \E t \in Slots :
    /\ net[t].action = "abort"
    /\ net[t].fileId = fileId
    /\ net[t].pc \in {"abortMpu", "deleteObj"}

\* the handler of an upload in slot s resumes after an abort of its id was
\* processed from beginning to end while it waited for the provider: the id
\* was not cancelled when the upload was taken up, it is now, and the
\* clean up of the abort has left no session record
LateUpload(s) ==
  /\ net[s].pc = "uploadPart"
  /\ net'[s].pc = "done"
  /\ net[s].fileId \in cancelledUploads
  /\ ~AbortUnderWay(net[s].fileId)
  /\ ~HasSession(net[s].fileId)

FirstAbortBegins(s) ==
  /\ net[s].action = "abort"
  /\ net[s].pc = "sent"
  /\ net'[s].pc # "sent"
  /\ net[s].fileId \notin cancelledUploads
  /\ Quiet(s, net[s].fileId)

\* C32: after any sequence of initialize, upload and complete for a file id,
\* with provider calls that may fail and with the id initialized again after
\* a failure, one abort leaves no open multipart upload of the id behind:
\* every multipart upload of the id that is open when the abort is taken up
\* is the one the abort makes its provider call for.
C32_AbortReachesEveryOpenUpload ==
  [][\A s \in Slots :
       FirstAbortBegins(s) =>
         \A k \in KeysOf(net[s].fileId) :
           k \in s3Open => (net'[s].pc = "abortMpu" /\ net'[s].actualUploadId = k)]_vars

\* the ids of the records, in their order
RecordIds(files) ==
  [i \in DOMAIN files |-> files[i].id]

\* a request of a file's task returns: what the task reports next
TaskStep(f) ==
  \E r \in Runs :
    \/ InitReturns(r, f)
    \/ CompleteReturns(r, f)
    \/ \E i \in ChunkIdx : StatusReturns(r, f, i) \/ UploadReturns(r, f, i)

\* C33: the records of the selection and their ids change only when a file
\* is removed or the selection is cleared (nothing is selected during an
\* upload here): starting, chunk reports, failures, cancellations and
\* retries leave the ids as they are, and what a task reports for a file
\* that has been removed changes no record
C33_SelectionChangesOnlyByRemoval ==
  [][/\ RecordIds(selectedFiles') # RecordIds(selectedFiles) =>
          (ClearSelectedFiles \/ \E f \in FileIds : HandleRemove(f))
     /\ \A f \in FileIds :
          (~HasFile(selectedFiles, f) /\ TaskStep(f)) =>
             selectedFiles' = selectedFiles
     /\ \A f \in FileIds :
          ~HasFile(selectedFiles, f) =>
             \A status \in {"uploading", "failed", "cancelled", "completed"},
                progress \in {NoProgress, 0, 100} :
               UpdateFileStatus(selectedFiles, f, status, progress, NoError) = selectedFiles]_vars

\* the first file was removed while its upload began, its task has gone
\* on to its end, and the second file is still selected
W33_RemovedWhileUploading ==
  /\ ~HasFile(selectedFiles, "f1")
  /\ HasFile(selectedFiles, "f2")
  /\ cancelledMid["f1"]
  /\ task[<<1, "f1">>].pc = "settled"

\* the presets a measurement maps to, rule by rule
MappedPresets(speed, rtt) ==
  LET ultrafast == speed > 50 /\ rtt < 50
      fast == ~ultrafast /\ speed > 20 /\ rtt < 100
      medium == ~ultrafast /\ ~fast /\ speed > 5 /\ rtt < 200
      slow == ~ultrafast /\ ~fast /\ ~medium
  IN  {p \in {"ultrafast", "fast", "medium", "slow"} :
         \/ p = "ultrafast" /\ ultrafast
         \/ p = "fast" /\ fast
         \/ p = "medium" /\ medium
         \/ p = "slow" /\ slow}

Triple(chunkSizeMiB, maxParallelChunks, uploadConcurrency) ==
  [chunkSize |-> chunkSizeMiB * MiB, maxParallelChunks |-> maxParallelChunks,
   uploadConcurrency |-> uploadConcurrency]

\* the triple of a name, every name but the four yielding that of medium
TripleOf(p) ==
  CASE p = "slow" -> Triple(2, 2, 1)
    [] p = "fast" -> Triple(10, 5, 5)
    [] p = "ultrafast" -> Triple(20, 10, 8)
    [] OTHER -> Triple(5, 3, 3)

\* the context's probe has recorded a measurement
Measured ==
  /\ network.contextProbe.pc = "testing"
  /\ network'.contextProbe.pc = "idle"
  /\ <<network'.uploadSpeedMbps, network'.rtt, network'.detectedPreset>>
       # <<network.uploadSpeedMbps, network.rtt, network.detectedPreset>>

\* every measurement maps to the one preset of the threshold rules
MeasurementMapped ==
  Measured =>
    MappedPresets(network'.uploadSpeedMbps, network'.rtt) = {network'.detectedPreset}

\* C34 as stated: a measurement maps to exactly one preset by the threshold
\* rules, and applying a preset sets the triple of its name, any name other
\* than slow, medium, fast and ultrafast setting the triple of medium
C34_AnyOtherNameIsMedium ==
  [][/\ MeasurementMapped
     /\ \A p \in PresetInputs : ApplyNetworkPreset(p) => settings' = TripleOf(p)]_vars

\* C34: a measurement maps to exactly one preset by the threshold rules, and
\* applying a preset sets the triple of its name, where the name auto
\* stands for the preset that was detected last and any other name sets
\* the triple of medium
C34_PresetOfMeasurementAndTriple ==
  [][/\ MeasurementMapped
     /\ \A p \in PresetInputs :
          ApplyNetworkPreset(p) =>
            settings' = TripleOf(IF p = "auto" THEN network.detectedPreset ELSE p)]_vars

\* 51 Mbps at 50 ms is not ultrafast but fast, and auto mode has applied it
W34_FastAtTheThreshold ==
  /\ network.uploadSpeedMbps = 51
  /\ network.rtt = 50
  /\ network.detectedPreset = "fast"
  /\ network.networkPreset = "auto"
  /\ settings = Triple(10, 5, 5)

\* the panel's probe has made its measurement
PanelMeasured ==
  /\ network.panelProbe.pc = "testing"
  /\ network'.panelProbe.pc = "idle"
  /\ ~(network' = [network EXCEPT !.panelProbe = NoProbe] /\ settings' = settings)

\* C35: in auto mode a probe that completes, the context's or the settings
\* panel's, applies the triple of the preset it detected and leaves
\* networkPreset at auto; the button Auto sets networkPreset to auto
C35_AutoModeIsStable ==
  [][/\ (network.networkPreset = "auto" /\ network.contextProbe.auto /\ Measured) =>
          /\ network'.networkPreset = "auto"
          /\ settings' = PresetSettings(network'.detectedPreset)
     /\ (network.networkPreset = "auto" /\ network.panelProbe.auto /\ PanelMeasured) =>
          /\ network'.networkPreset = "auto"
          /\ settings' = PresetSettings(network'.panelDetected)
     /\ SelectAuto => network'.networkPreset = "auto"]_vars

\* the runs of startUpload that have a batch under way or left to start
ActiveRuns ==
  {r \in Runs : run[r].pc \in {"queue", "batch"}}

\* C36: at most one run of startUpload is active at any time, and
\* isUploading is true as long as a run has a file in flight or a batch
\* left to start
C36_AtMostOneRun ==
  /\ Cardinality(ActiveRuns) <= 1
  /\ ActiveRuns # {} => isUploading

\* the callback of the file is over in every run that took it up, and it
\* left the file failed or cancelled
SettledAs(f) ==
  /\ HasFile(selectedFiles, f)
  /\ TasksOver(f)
  /\ \E r \in Runs : task[<<r, f>>].pc = "settled"
  /\ StatusNow(f) \in {"failed", "cancelled"}

\* a request of a chunk of the file that was still under way returns
StrayChunkReturns(f) ==
  \E r \in Runs, i \in ChunkIdx : StatusReturns(r, f, i) \/ UploadReturns(r, f, i)

\* C37: once the callback of a file has settled with the file failed or
\* cancelled, a chunk request of the file that returns later changes
\* neither the status nor the progress of the file
C37_StrayChunksChangeNothing ==
  [][\A f \in FileIds :
       (SettledAs(f) /\ StrayChunkReturns(f)) =>
          /\ StatusNext(f) = StatusNow(f)
          /\ FindFile(selectedFiles', f).progress = FindFile(selectedFiles, f).progress]_vars

\* C38: whatever the interleaving of the handlers, a file id of the
\* cancellation set has no session record, once no abort of the id is at
\* work any more
C38_NoSessionForCancelledId ==
  \A f \in FileIds :
    (f \in cancelledUploads /\ ~AbortUnderWay(f)) => ~HasSession(f)

Settled ==
  {"completed", "failed", "cancelled"}

\* C39: when every request returns in the end, a file that is uploading
\* comes to be completed, failed or cancelled and stays so, and isUploading
\* becomes false after the run has begun
C39_RunTerminates ==
  /\ \A f \in FileIds :
       (StatusNow(f) = "uploading") ~> [](StatusNow(f) \in Settled)
  /\ isUploading ~> ~isUploading

\* C40: no two records of the selection have the same (name, size,
\* lastModified), two files of one prepareFiles call included, and no two
\* records have the same id
C40_NoDuplicateRecords ==
  \A i, j \in DOMAIN selectedFiles :
    i # j =>
      /\ ~SameTriple(selectedFiles[i], selectedFiles[j])
      /\ selectedFiles[i].id # selectedFiles[j].id

====
